---- MODULE Spec2Model ----
(***************************************************************************)
(* Model of the ReActBotMcp agent runtime: the ServiceRegistry             *)
(* (src/core/registry.py) and the ReAct agent loop in its three output     *)
(* modes (src/plugins/react_agent.py).                                     *)
(*                                                                         *)
(* Python dicts are insertion ordered: a dict is modelled as a sequence of *)
(* <<key, value>> pairs.  Python strings are modelled as sequences of      *)
(* one-character strings, so that substring tests and replacements are     *)
(* computed and not assumed.                                               *)
(***************************************************************************)
EXTENDS Integers, Sequences, FiniteSets, TLC

\* ------------------------------------------------------------------ bounds
MaxSessions == 2
MaxToolsPerCall == 2
MaxClock == 1

\* ------------------------------------------------------- ordered dicts
DictHas(d, k) == \E i \in DOMAIN d : d[i][1] = k

DictGet(d, k, default) ==
    IF DictHas(d, k) THEN d[CHOOSE i \in DOMAIN d : d[i][1] = k][2] ELSE default

DictPut(d, k, v) ==
    IF DictHas(d, k)
    THEN [i \in DOMAIN d |-> IF d[i][1] = k THEN <<k, v>> ELSE d[i]]
    ELSE Append(d, <<k, v>>)

\* Variant with a seeded fault: popping a missing key drops the newest entry.
DictPopLast(d, k) ==
    IF DictHas(d, k) THEN SelectSeq(d, LAMBDA p : p[1] # k)
    ELSE SubSeq(d, 1, Len(d) - 1)

DictDel(d, k) == SelectSeq(d, LAMBDA p : p[1] # k)

\* ------------------------------------------------------ session objects
\* A session is an opaque Python object: `id` is its identity (the `is`
\* operator), `eq` its equality class (the `==` operator; an object without
\* __eq__ is equal only to itself), `truthy` its truth value.
SessionObject(i) == [id |-> i, eq |-> i, truthy |-> TRUE]

None == [id |-> 0, eq |-> 0, truthy |-> FALSE]

SessionIs(a, b) == a.id = b.id

SessionEq(a, b) == a.eq = b.eq

\* The connection objects the orchestrator registers (fastmcp Client
\* instances): truthy, compared by identity.
SessionPool == {SessionObject(i) : i \in 1..MaxSessions}

\* session: Any.  Object 1 of the pool, an object of a class whose __eq__ makes
\* it equal to object 1 without being it, and an object that is falsy.
AnySessions ==
    {SessionObject(1),
     [id |-> MaxSessions + 1, eq |-> 1, truthy |-> TRUE],
     [id |-> MaxSessions + 2, eq |-> MaxSessions + 2, truthy |-> FALSE]}

Urls == {"u1", "u2"}

ToolNames == {"add", "sub"}

DisplayNames == {"", "svc"}

\* tools: List[Tuple[str, Dict]] of one add_service call.  A service describes
\* its own tools: the definition names the tool and the service offering it.
RECURSIVE SeqsUpTo(_, _)
SeqsUpTo(S, n) ==
    IF n = 0 THEN {<<>>}
    ELSE LET shorter == SeqsUpTo(S, n - 1)
         IN  shorter \cup {Append(s, x) : s \in {t \in shorter : Len(t) = n - 1}, x \in S}

ToolDefinition(tool_name, url) == [name |-> tool_name, description |-> url]

ToolLists(url) ==
    {[i \in DOMAIN names |-> <<names[i], ToolDefinition(names[i], url)>>] :
        names \in SeqsUpTo(ToolNames, MaxToolsPerCall)}

VARIABLES
    sessions,             \* server_url -> session
    service_health,       \* server_url -> last heartbeat time
    tool_cache,           \* tool_name -> tool definition
    tool_to_session_map,  \* tool_name -> session
    service_names,        \* server_url -> display name
    clock,                \* what datetime.now() returns
    call                  \* the last registry call: its arguments, what it returned,
                          \* and the tools owned through its URL before it ran

regVars == <<sessions, service_health, tool_cache, tool_to_session_map, service_names>>

\* The registry as one value, for the operations below.
Registry ==
    [sessions |-> sessions, service_health |-> service_health, tool_cache |-> tool_cache,
     tool_to_session_map |-> tool_to_session_map, service_names |-> service_names]

EmptyRegistry ==
    [sessions |-> <<>>, service_health |-> <<>>, tool_cache |-> <<>>,
     tool_to_session_map |-> <<>>, service_names |-> <<>>]

\* ---------------------------------------------------------- remove_service
OwnedBy(p, session) == SessionEq(p[2], session)

\* Mutant: the scan stops at the first tool of the session.
ToolsToRemoveFirstOnly(map, session) ==
    LET hits == {j \in DOMAIN map : OwnedBy(map[j], session)}
    IN  IF hits = {} THEN {} ELSE {map[CHOOSE i \in hits : \A j \in hits : i <= j][1]}

ToolsToRemove(map, session) ==
    {map[i][1] : i \in {j \in DOMAIN map : OwnedBy(map[j], session)}}

DropTools(d, gone) == SelectSeq(d, LAMBDA p : p[1] \notin gone)

remove_service(R, url) ==
    LET session == DictGet(R.sessions, url, None)
        popped == [R EXCEPT !.sessions = DictDel(R.sessions, url)]
        gone == ToolsToRemove(R.tool_to_session_map, session)
    IN  IF ~session.truthy
        THEN [reg |-> popped, ret |-> None]
        ELSE [reg |-> [popped EXCEPT
                         !.service_health = DictDel(R.service_health, url),
                         !.service_names = DictDel(R.service_names, url),
                         !.tool_cache = DropTools(R.tool_cache, gone),
                         !.tool_to_session_map = DropTools(R.tool_to_session_map, gone)],
              ret |-> session]

\* ------------------------------------------------------------- add_service
\* Mutant: no conflict check, a later registration overwrites the owner.
RECURSIVE InstallToolsOverwriting(_, _, _, _)
InstallToolsOverwriting(R, session, tools, added) ==
    IF tools = <<>> THEN [reg |-> R, ret |-> added]
    ELSE InstallToolsOverwriting(
             [R EXCEPT !.tool_cache = DictPut(@, Head(tools)[1], Head(tools)[2]),
                       !.tool_to_session_map = DictPut(@, Head(tools)[1], session)],
             session, Tail(tools), Append(added, Head(tools)[1]))

RECURSIVE InstallTools(_, _, _, _)
InstallTools(R, session, tools, added) ==
    IF tools = <<>> THEN [reg |-> R, ret |-> added]
    ELSE LET tool_name == Head(tools)[1]
             tool_definition == Head(tools)[2]
         IN  IF DictHas(R.tool_cache, tool_name)
             THEN InstallTools(R, session, Tail(tools), added)
             ELSE InstallTools(
                      [R EXCEPT !.tool_cache = DictPut(@, tool_name, tool_definition),
                                !.tool_to_session_map = DictPut(@, tool_name, session)],
                      session, Tail(tools), Append(added, tool_name))

\* Mutant: an already registered URL is overwritten without removing it.
RemoveOldSkipped(R, url) == R

RemoveOld(R, url) == IF DictHas(R.sessions, url) THEN remove_service(R, url).reg ELSE R

add_service(R, url, session, tools, name, now) ==
    LET cleared == RemoveOld(R, url)
        display_name == IF name # "" THEN name ELSE url
        stored == [cleared EXCEPT !.sessions = DictPut(@, url, session),
                                  !.service_health = DictPut(@, url, now),
                                  !.service_names = DictPut(@, url, display_name)]
    IN  InstallTools(stored, session, tools, <<>>)

\* ------------------------------------------------------------ read access
get_session_for_tool(R, tool_name) == DictGet(R.tool_to_session_map, tool_name, None)

get_service_name(R, url) == DictGet(R.service_names, url, url)

\* The first URL, in dict order, whose session is this very object.
ServiceOf(R, session) ==
    LET hits == {i \in DOMAIN R.sessions : SessionIs(R.sessions[i][2], session)}
    IN  IF hits = {} THEN "none"
        ELSE R.sessions[CHOOSE i \in hits : \A j \in hits : i <= j][1]

get_all_tools(R) ==
    [i \in DOMAIN R.tool_cache |->
        LET tool_name == R.tool_cache[i][1]
            service_url == ServiceOf(R, get_session_for_tool(R, tool_name))
        IN  [name |-> tool_name,
             definition |-> R.tool_cache[i][2],
             service_url |-> service_url,
             service_name |-> IF service_url = "none" THEN "none"
                              ELSE get_service_name(R, service_url)]]

get_tools_for_service(R, url) ==
    LET session == DictGet(R.sessions, url, None)
    IN  IF ~session.truthy THEN {}
        ELSE {R.tool_to_session_map[i][1] :
                 i \in {j \in DOMAIN R.tool_to_session_map :
                           SessionIs(R.tool_to_session_map[j][2], session)}}

\* Variant with a seeded fault: the heartbeat is stored for any URL.
update_service_health_unguarded(R, url, now) ==
    [R EXCEPT !.service_health = DictPut(@, url, now)]

update_service_health(R, url, now) ==
    IF DictHas(R.sessions, url)
    THEN [R EXCEPT !.service_health = DictPut(@, url, now)]
    ELSE R

\* ------------------------------------------------------- registry actions
SetRegistry(R) ==
    /\ sessions' = R.sessions
    /\ service_health' = R.service_health
    /\ tool_cache' = R.tool_cache
    /\ tool_to_session_map' = R.tool_to_session_map
    /\ service_names' = R.service_names

NoCall ==
    [op |-> "none", url |-> "none", session |-> None, tools |-> <<>>, ret |-> <<>>,
     owned |-> {}]

\* add_service called with a session taken from pool.
AddSession(pool) ==
    \E url \in Urls, session \in pool, name \in DisplayNames :
      \E tools \in ToolLists(url) :
        LET r == add_service(Registry, url, session, tools, name, clock)
        IN  /\ SetRegistry(r.reg)
            /\ call' = [op |-> "add_service", url |-> url, session |-> session,
                        tools |-> tools, ret |-> r.ret, owned |-> get_tools_for_service(Registry, url)]
            /\ UNCHANGED clock

AddService == AddSession(SessionPool)

RemoveService ==
    \E url \in Urls :
        LET r == remove_service(Registry, url)
        IN  /\ SetRegistry(r.reg)
            /\ call' = [op |-> "remove_service", url |-> url, session |-> None,
                        tools |-> <<>>, ret |-> r.ret, owned |-> get_tools_for_service(Registry, url)]
            /\ UNCHANGED clock

UpdateHealth ==
    \E url \in Urls :
        /\ SetRegistry(update_service_health(Registry, url, clock))
        /\ call' = [op |-> "update_service_health", url |-> url, session |-> None,
                    tools |-> <<>>, ret |-> <<>>, owned |-> get_tools_for_service(Registry, url)]
        /\ UNCHANGED clock

\* add_service as the orchestrator calls it: an empty tool list.
AddServiceNoTools ==
    \E url \in Urls, session \in SessionPool, name \in DisplayNames :
        LET r == add_service(Registry, url, session, <<>>, name, clock)
        IN  /\ SetRegistry(r.reg)
            /\ call' = [op |-> "add_service", url |-> url, session |-> session,
                        tools |-> <<>>, ret |-> r.ret, owned |-> get_tools_for_service(Registry, url)]
            /\ UNCHANGED clock

\* Time passes between two calls (or does not: two calls may read the same
\* datetime.now()).
Tick ==
    /\ clock < MaxClock
    /\ clock' = clock + 1
    /\ UNCHANGED <<regVars, call>>

\* ========================================================================
\* ReAct agent (src/plugins/react_agent.py)
\* ========================================================================
MaxIterations == 2
MaxChunks == 3
MaxFragments == 4

\* ---------------------------------------------------------------- strings
\* A string is a sequence of characters; a literal of the source whose
\* inside is never inspected is kept as one element.
\* pat in s
Contains(s, pat) ==
    \E i \in 1..(Len(s) - Len(pat) + 1) : SubSeq(s, i, i + Len(pat) - 1) = pat

\* s.replace(pat, ""): left to right, non-overlapping
RECURSIVE Remove(_, _)
Remove(s, pat) ==
    IF Len(s) < Len(pat) THEN s
    ELSE IF SubSeq(s, 1, Len(pat)) = pat
         THEN Remove(SubSeq(s, Len(pat) + 1, Len(s)), pat)
         ELSE <<Head(s)>> \o Remove(Tail(s), pat)

\* s.strip()
RECURSIVE LStrip(_)
LStrip(s) == IF s # <<>> /\ Head(s) = " " THEN LStrip(Tail(s)) ELSE s

RECURSIVE RStrip(_)
RStrip(s) ==
    IF s # <<>> /\ s[Len(s)] = " " THEN RStrip(SubSeq(s, 1, Len(s) - 1)) ELSE s

Strip(s) == RStrip(LStrip(s))

ThinkOpen == <<"<", "t", "h", "i", "n", "k", ">">>

ThinkClose == <<"<", "/", "t", "h", "i", "n", "k", ">">>

\* Python's None where a string is expected
NoneStr == <<"None">>

\* json.loads(arguments): over texts made of braces the only JSON document
\* is the empty object.
JsonLoadsFails(arguments) == arguments # <<"{", "}">>

VARIABLES
    mode,                 \* "blocking" (process_query), "step" (stream_process_query),
                          \* "token" (stream_process_query_token)
    llm_client,           \* self.llm_client is set
    llm_model,            \* config["llm_config"].model is set
    max_iterations,       \* self.max_iterations
    enable_trace,         \* self.enable_trace
    has_registry,         \* self.registry is set
    stream_is_async,      \* the model stream has __aiter__
    pc,                   \* where the coroutine / generator stands
    iterations,
    messages,
    execution_trace,
    result,               \* what process_query returned
    outcome,              \* which return site ended the run
    trail,                \* in order: model calls, model responses, tool invocations,
                          \* yielded events
    uuid,                 \* uuid4() values handed out so far
    final_answer,
    thinking_buffer,
    current_thinking_id,
    in_thinking_mode,
    current_message,
    tool_calls,
    is_function_calling,
    chunks_read,          \* content and tool-call chunks read in this run
    delivered,            \* the tool-call fragments the current model stream has handed over
    script                \* the chunks a scripted model stream still holds

\* The orchestrator (src/core/orchestrator.py) and the configuration file it
\* persists services to (src/plugins/json_mcp.py).
VARIABLES
    mcp_servers,           \* "mcpServers" of mcp.json: service name -> url
    clients,               \* MCPOrchestrator.clients: service name -> Client
    pending_reconnection,  \* MCPOrchestrator.pending_reconnection
    heartbeat_task,        \* state of the task running _heartbeat_loop
    reconnection_task,     \* state of the task running _reconnection_loop
    health_iter,           \* the dict iterator of a health pass suspended in a probe
    cleanup_pc,            \* where cleanup() is
    react_agent,           \* MCPOrchestrator.react_agent is set (not None)
    disconnected,          \* URLs disconnect_service took out of mcp.json, until connected again
    cleanup_from,          \* mcp.json as it was when cleanup() was entered
    orch_call              \* the last orchestrator call or pass and how it ended

orchVars == <<mcp_servers, clients, pending_reconnection, heartbeat_task,
              reconnection_task, health_iter, cleanup_pc, react_agent, disconnected,
              cleanup_from, orch_call>>

\* One StreamableHTTPTransport (src/core/transport.py).
VARIABLES
    session_id,            \* config.session_id
    last_event_id,         \* last_event_id
    received,              \* the session id the latest initialize found in its response
    client_closed,         \* the HTTP client has been closed
    sent,                  \* the last HTTP request sent: its kind and headers
    records,               \* the id fields of the SSE records the last request read
    stream,                \* the SSE response being read: its records, each a list of lines
    eol,                   \* the line terminator the server writes
    unread,                \* the characters of the response not received yet
    buffer,                \* buffer
    yielded                \* the events the generator has yielded

sseVars == <<stream, eol, unread, buffer, yielded>>

netVars == <<session_id, last_event_id, received, client_closed, sent, records, sseVars>>

VARIABLES
    in_progress,           \* the registry states still to come in the registry call that is running
    seen                   \* what the last lookup of an agent loop observed

lookupVars == <<in_progress, seen>>

\* Queries with a trace running concurrently on one agent (src/core/client.py).
VARIABLES
    tasks,                 \* each query: where it is, its locals, what it returned
    running,               \* the query that runs now, 0 when all wait
    react_enable_trace     \* "react_enable_trace" of the configuration

taskVars == <<tasks, running, react_enable_trace>>

cfgVars == <<mode, llm_client, llm_model, max_iterations, enable_trace, has_registry,
             stream_is_async>>

loopVars == <<pc, iterations, messages, execution_trace, result, outcome, trail, uuid>>

thinkVars == <<final_answer, thinking_buffer, current_thinking_id, in_thinking_mode>>

streamVars == <<current_message, tool_calls, is_function_calling, chunks_read, delivered,
               script>>

agentVars == <<cfgVars, loopVars, thinkVars, streamVars>>

vars == <<regVars, clock, call, orchVars, netVars, lookupVars, taskVars, agentVars>>

Modes == {"blocking", "step", "token"}

Query == <<"q">>

NoId == 0

\* ------------------------------------------------------ what the model says
TextAnswer(content) ==
    [kind |-> "message", content |-> content, finish_reason |-> "stop", tool_calls |-> <<>>]

ToolRequest(content, name, arguments) ==
    [kind |-> "message", content |-> content, finish_reason |-> "tool_calls",
     tool_calls |-> <<[name |-> name, arguments |-> arguments]>>]

\* chat.completions.create(...) without stream=True: a message, or an exception
ModelResponses ==
    { TextAnswer(<<" ", "o", "k", " ">>),
      TextAnswer(NoneStr),
      ToolRequest(<<"t">>, "add", <<"{", "}">>),
      ToolRequest(NoneStr, "add", <<"{">>),
      ToolRequest(NoneStr, "nope", <<"{", "}">>),
      [kind |-> "message", content |-> <<"x">>, finish_reason |-> "tool_calls",
       tool_calls |-> <<>>],
      [kind |-> "TypeError"],
      [kind |-> "Exception"] }

IsToolRequest(response) ==
    response.kind = "message" /\ response.finish_reason = "tool_calls"
        /\ response.tool_calls # <<>>

OrEmpty(content) == IF content = NoneStr THEN <<>> ELSE content

\* What session.call_tool / client.call_tool does once invoked.
ToolOutcomes == {"returns", "raises"}

ToolOutput == <<"4">>

ToolFailure == <<"boom">>

\* ------------------------------------------------ _call_tool_with_registry
\* invoked: a session's (or the client's) call_tool ran; raised: the call
\* ended in an exception whose text is `text`, else `text` is str(result).
_call_tool_with_registry(R, function_name, how) ==
    LET session == get_session_for_tool(R, function_name)
        ran == [invoked |-> TRUE, raised |-> how = "raises",
                text |-> IF how = "raises" THEN ToolFailure ELSE ToolOutput]
    IN  IF has_registry
        THEN IF session.truthy
             THEN ran
             ELSE [invoked |-> FALSE, raised |-> TRUE,
                   text |-> <<"Tool not found: ", function_name>>]
        ELSE ran

ToolErrorText(function_name, text) ==
    <<"Error: An internal error occurred while calling tool '", function_name, "': ">> \o text

ParseErrorText(function_name) ==
    <<"Error: Unable to parse parameters for tool '", function_name, "': ", "JSONDecodeError">>

\* Variant with a seeded fault: the text of a failed call is passed on as if
\* it were the tool's result.
ToolResultUnmarked(function_name, r) == r.text

ToolResultOf(function_name, r) ==
    IF r.raised THEN ToolErrorText(function_name, r.text) ELSE r.text

\* ------------------------------------------------------------ trail entries
ModelCall == [kind |-> "model_call"]

Responded(what) == [kind |-> "response", what |-> what]

Invoked(function_name, args) == [kind |-> "invoke", tool |-> function_name, args |-> args]

Yield(event) == [kind |-> "yield", event |-> event]

InvokeIf(r, function_name, args) ==
    IF r.invoked THEN <<Invoked(function_name, args)>> ELSE <<>>

IsFinalYield(e) == e.kind = "yield" /\ e.event.is_final

CountOf(kind) == Len(SelectSeq(trail, LAMBDA e : e.kind = kind))

model_calls == CountOf("model_call")

tool_invocations == CountOf("invoke")

FinalCount == Len(SelectSeq(trail, IsFinalYield))

\* --------------------------------------------------------------- messages
SystemPrompt(tools) == <<"system prompt">> \o [i \in DOMAIN tools |-> tools[i].name]

InitialMessages(prompt) ==
    << [role |-> "system", content |-> prompt], [role |-> "user", content |-> Query] >>

AssistantToolCalls(calls) ==
    [role |-> "assistant", content |-> NoneStr, tool_calls |-> calls]

\* Variant with a seeded fault: the tool message does not carry the id of the
\* call it answers.
ToolMessageWithoutId(tool_call_id, tool_result) ==
    [role |-> "tool", tool_call_id |-> 0, content |-> tool_result]

ToolMessage(tool_call_id, tool_result) ==
    [role |-> "tool", tool_call_id |-> tool_call_id, content |-> tool_result]

\* The tool catalog: registry.get_all_tools(), or client.list_tools().
AvailableTools == IF has_registry THEN get_all_tools(Registry) ELSE <<>>

NoResult == [text |-> <<>>, trace |-> <<"unset">>]

NoTrace == <<"None">>

Returned(text, trace) == [text |-> text, trace |-> trace]

LimitText(limit, last_message) ==
    <<"Processing your request exceeded the maximum iteration limit (", ToString(limit), "). ">>
        \o last_message

TypeErrorText ==
    <<"Error: Type error during language model call, please check SDK parameters. (", "e", ")">>

ExceptionText(where) ==
    <<"Error processing your request. (", where, "Exception", ": ", "e", ")">>

NoClientText == <<"Error: Language model client not configured.">>

NoModelText == <<"Error: Language model name not configured.">>

\* json.loads of a text that parses
JsonObject == <<"object">>

TraceOrNone(trace) == IF enable_trace THEN trace ELSE NoTrace

\* Variant with a seeded fault: the loop runs one pass too many.
WithinLimitInclusive == iterations <= max_iterations

\* while iterations < self.max_iterations
WithinLimit == iterations < max_iterations

\* The run ends here: process_query returns (text, trace).
Return(text, trace, how) ==
    /\ result' = Returned(text, trace)
    /\ outcome' = how
    /\ pc' = "done"

\* ---------------------------------------------------------- process_query
ProcessQueryStart ==
    /\ mode = "blocking"
    /\ pc = "start"
    /\ IF ~llm_client
       THEN /\ Return(NoClientText, NoTrace, "failed")
            /\ UNCHANGED <<messages, execution_trace>>
       ELSE /\ messages' = InitialMessages(SystemPrompt(AvailableTools))
            /\ execution_trace' = <<>>
            /\ pc' = "loop"
            /\ UNCHANGED <<result, outcome>>
    /\ UNCHANGED <<regVars, clock, call, orchVars, netVars, lookupVars, taskVars, cfgVars, iterations, trail, uuid, thinkVars, streamVars>>

\* One pass of the while loop, for one model response and one behaviour of
\* the tool it asks for.
ProcessQueryRound(response, how) ==
    LET assistant_response == OrEmpty(response.content)
        thought == IF enable_trace
                   THEN Append(execution_trace, [role |-> "assistant", content |-> assistant_response])
                   ELSE execution_trace
        tool_call == response.tool_calls[1]
        tool_call_id == iterations + 1
        function_name == tool_call.name
        r == _call_tool_with_registry(Registry, function_name, how)
        unparsed == JsonLoadsFails(tool_call.arguments)
        tool_result == IF unparsed THEN ParseErrorText(function_name)
                       ELSE ToolResultOf(function_name, r)
    IN  IF response.kind = "TypeError"
        THEN /\ Return(TypeErrorText, NoTrace, "failed")
             /\ trail' = trail \o <<ModelCall, Responded("raise")>>
             /\ UNCHANGED <<messages, execution_trace>>
        ELSE IF response.kind = "Exception"
        THEN /\ Return(ExceptionText("Error during ReAct process: "), NoTrace, "failed")
             /\ trail' = trail \o <<ModelCall, Responded("raise")>>
             /\ UNCHANGED <<messages, execution_trace>>
        ELSE IF IsToolRequest(response)
        THEN /\ messages' = messages \o
                   << AssistantToolCalls(<<[id |-> tool_call_id, type |-> "function",
                                           name |-> function_name,
                                           arguments |-> tool_call.arguments]>>),
                      ToolMessage(tool_call_id, tool_result) >>
             /\ execution_trace' =
                   IF enable_trace
                   THEN Append(thought, [role |-> "tool", name |-> function_name,
                                         result |-> tool_result])
                   ELSE thought
             /\ trail' = trail \o <<ModelCall, Responded("tool")>>
                            \o (IF unparsed THEN <<>> ELSE InvokeIf(r, function_name, JsonObject))
             /\ UNCHANGED <<pc, result, outcome>>
        ELSE /\ Return(Strip(OrEmpty(response.content)), TraceOrNone(thought), "completed")
             /\ trail' = trail \o <<ModelCall, Responded("text")>>
             /\ execution_trace' = thought
             /\ UNCHANGED messages

ProcessQueryIteration ==
    /\ mode = "blocking"
    /\ pc = "loop"
    /\ WithinLimit
    /\ iterations' = iterations + 1
    /\ IF ~llm_model
       THEN /\ Return(NoModelText, NoTrace, "failed")
            /\ UNCHANGED <<messages, execution_trace, trail>>
       ELSE \E response \in ModelResponses, how \in ToolOutcomes :
                ProcessQueryRound(response, how)
    /\ UNCHANGED <<regVars, clock, call, orchVars, netVars, lookupVars, taskVars, cfgVars, uuid, thinkVars, streamVars>>

LastContent == messages[Len(messages)].content

ProcessQueryLimit ==
    /\ mode = "blocking"
    /\ pc = "loop"
    /\ ~WithinLimit
    /\ IF LastContent = NoneStr
       THEN /\ pc' = "done"
            /\ outcome' = "raised"
            /\ UNCHANGED result
       ELSE Return(LimitText(max_iterations, LastContent), TraceOrNone(execution_trace), "limit")
    /\ UNCHANGED <<regVars, clock, call, orchVars, netVars, lookupVars, taskVars, cfgVars, iterations, messages, execution_trace, trail,
                   uuid, thinkVars, streamVars>>

\* --------------------------------------------------- stream_process_query
NoStep == [type |-> "None"]

FinalStep(text) == Yield([thinking_step |-> NoStep, is_final |-> TRUE, result |-> text])

Step(thinking_step) == Yield([thinking_step |-> thinking_step, is_final |-> FALSE])

ThinkingStep(id, content, status) ==
    Step([type |-> "thinking", content |-> content, id |-> id, status |-> status])

ToolStart(id, tool, params) ==
    Step([type |-> "tool_call", tool |-> tool, id |-> id, status |-> "start", params |-> params])

\* Variant with a seeded fault: the completion is sent under a fresh id.
ToolCompleteFreshId(id, tool, params, tool_result) ==
    Step([type |-> "tool_call", tool |-> tool, id |-> id + 1, status |-> "complete",
          params |-> params, result |-> tool_result])

ToolComplete(id, tool, params, tool_result) ==
    Step([type |-> "tool_call", tool |-> tool, id |-> id, status |-> "complete",
          params |-> params, result |-> tool_result])

\* The generator ends here, after what it yields last.
Stop(how) ==
    /\ outcome' = how
    /\ pc' = "done"
    /\ UNCHANGED result

StreamStart ==
    /\ mode = "step"
    /\ pc = "start"
    /\ IF ~llm_client
       THEN /\ Stop("failed")
            /\ trail' = Append(trail, FinalStep(NoClientText))
            /\ UNCHANGED messages
       ELSE /\ messages' = InitialMessages(SystemPrompt(AvailableTools))
            /\ pc' = "loop"
            /\ UNCHANGED <<result, outcome, trail>>
    /\ UNCHANGED <<regVars, clock, call, orchVars, netVars, lookupVars, taskVars, cfgVars, iterations, execution_trace, uuid, thinkVars,
                   streamVars>>

ErrorArgs == <<"error", "Unable to parse parameters">>

StreamRound(response, how) ==
    LET assistant_response == OrEmpty(response.content)
        step_id == uuid + 1
        tool_step_id == uuid + 2
        tool_call == response.tool_calls[1]
        tool_call_id == iterations + 1
        function_name == tool_call.name
        function_args == IF JsonLoadsFails(tool_call.arguments) THEN ErrorArgs ELSE JsonObject
        r == _call_tool_with_registry(Registry, function_name, how)
        tool_result == ToolResultOf(function_name, r)
    IN  IF response.kind = "TypeError"
        THEN /\ Stop("failed")
             /\ trail' = trail \o <<ModelCall, Responded("raise"), FinalStep(TypeErrorText)>>
             /\ UNCHANGED <<messages, uuid>>
        ELSE IF response.kind = "Exception"
        THEN /\ Stop("failed")
             /\ trail' = trail \o <<ModelCall, Responded("raise"),
                                    FinalStep(ExceptionText("Error during streaming ReAct process: "))>>
             /\ UNCHANGED <<messages, uuid>>
        ELSE IF IsToolRequest(response)
        THEN /\ messages' = messages \o
                   << AssistantToolCalls(<<[id |-> tool_call_id, type |-> "function",
                                           name |-> function_name,
                                           arguments |-> tool_call.arguments]>>),
                      ToolMessage(tool_call_id, tool_result) >>
             /\ trail' = trail
                   \o <<ModelCall, Responded("tool"),
                        ThinkingStep(step_id, assistant_response, "start"),
                        ThinkingStep(step_id, assistant_response, "complete"),
                        ToolStart(tool_step_id, function_name, function_args)>>
                   \o InvokeIf(r, function_name, function_args)
                   \o <<ToolComplete(tool_step_id, function_name, function_args, tool_result)>>
             /\ uuid' = uuid + 2
             /\ UNCHANGED <<pc, result, outcome>>
        ELSE /\ Stop("completed")
             /\ trail' = trail
                   \o <<ModelCall, Responded("text"),
                        ThinkingStep(step_id, assistant_response, "start"),
                        ThinkingStep(step_id, assistant_response, "complete"),
                        FinalStep(Strip(OrEmpty(response.content)))>>
             /\ uuid' = uuid + 1
             /\ UNCHANGED messages

StreamIteration ==
    /\ mode = "step"
    /\ pc = "loop"
    /\ WithinLimit
    /\ iterations' = iterations + 1
    /\ IF ~llm_model
       THEN /\ Stop("failed")
            /\ trail' = Append(trail, FinalStep(NoModelText))
            /\ UNCHANGED <<messages, uuid>>
       ELSE \E response \in ModelResponses, how \in ToolOutcomes :
                StreamRound(response, how)
    /\ UNCHANGED <<regVars, clock, call, orchVars, netVars, lookupVars, taskVars, cfgVars, execution_trace, thinkVars, streamVars>>

StreamLimit ==
    /\ mode = "step"
    /\ pc = "loop"
    /\ ~WithinLimit
    /\ IF LastContent = NoneStr
       THEN /\ Stop("raised")
            /\ UNCHANGED trail
       ELSE /\ Stop("limit")
            /\ trail' = Append(trail, FinalStep(LimitText(max_iterations, LastContent)))
    /\ UNCHANGED <<regVars, clock, call, orchVars, netVars, lookupVars, taskVars, cfgVars, iterations, messages, execution_trace, uuid,
                   thinkVars, streamVars>>

\* --------------------------------------------- stream_process_query_token
NoneName == "None"

ContentChunk(token) == [content |-> token, tool_calls |-> <<>>, finish_reason |-> FALSE]

DeltaChunk(index, name, arguments) ==
    [content |-> NoneStr,
     tool_calls |-> <<[index |-> index, name |-> name, arguments |-> arguments]>>,
     finish_reason |-> FALSE]

FinishChunk == [content |-> NoneStr, tool_calls |-> <<>>, finish_reason |-> TRUE]

\* What one chunk of a model stream may carry.
Chunks ==
    { ContentChunk(<<"a">>), ContentChunk(ThinkOpen), ContentChunk(ThinkClose),
      DeltaChunk(0, "add", <<"{", "}">>),
      DeltaChunk(1, NoneName, <<"{">>),
      DeltaChunk(0, "nope", NoneStr),
      [content |-> ThinkOpen,
       tool_calls |-> <<[index |-> 0, name |-> "add", arguments |-> <<"{", "}">>]>>,
       finish_reason |-> FALSE],
      FinishChunk }

ThinkingToken(content, thinking_id) ==
    Yield([token_chunk |-> [type |-> "thinking", content |-> content,
                            thinking_id |-> thinking_id],
           is_final |-> FALSE])

ContentToken(content) ==
    Yield([token_chunk |-> [type |-> "content", content |-> content], is_final |-> FALSE])

\* Variant with a seeded fault: the result is the content of the last stream.
FinalTokenOfLastStream(text) ==
    Yield([token_chunk |-> NoStep, is_final |-> TRUE, result |-> current_message.content])

FinalToken(text) == Yield([token_chunk |-> NoStep, is_final |-> TRUE, result |-> text])

CleanToken(token) == Remove(Remove(token, ThinkOpen), ThinkClose)

\* Lines 681-745: one content token.  skip: the loop body ended in `continue`.
ContentEffect(token) ==
    LET clean_token == CleanToken(token)
        same == [in_thinking_mode |-> in_thinking_mode,
                 current_thinking_id |-> current_thinking_id,
                 thinking_buffer |-> thinking_buffer,
                 final_answer |-> final_answer,
                 yields |-> <<>>, uuid |-> uuid, skip |-> FALSE]
    IN  IF Contains(token, ThinkOpen) /\ ~in_thinking_mode
        THEN [same EXCEPT !.in_thinking_mode = TRUE,
                          !.current_thinking_id = uuid + 1,
                          !.uuid = uuid + 1,
                          !.yields = <<ThinkingStep(uuid + 1, <<>>, "start")>>,
                          !.thinking_buffer = <<>>,
                          !.skip = TRUE]
        ELSE IF Contains(token, ThinkClose) /\ in_thinking_mode
        THEN [same EXCEPT !.in_thinking_mode = FALSE,
                          !.yields = <<ThinkingStep(current_thinking_id, thinking_buffer, "complete")>>,
                          !.current_thinking_id = NoId,
                          !.skip = TRUE]
        ELSE IF in_thinking_mode
        THEN [same EXCEPT !.thinking_buffer = thinking_buffer \o clean_token,
                          !.yields = <<ThinkingToken(clean_token, current_thinking_id)>>]
        ELSE IF clean_token # <<>>
        THEN [same EXCEPT !.final_answer = final_answer \o clean_token,
                          !.yields = <<ContentToken(clean_token)>>]
        ELSE same

NewToolCall(id) == [id |-> id, type |-> "function", name |-> "", arguments |-> <<>>]

\* Lines 751-771: one tool-call fragment, on the list assembled so far;
\* next is the last uuid handed out.
ApplyDelta(st, delta) ==
    LET missing == delta.index + 1 - Len(st.tool_calls)
        padded == IF missing > 0
                  THEN st.tool_calls \o [i \in 1..missing |-> NewToolCall(st.uuid + i)]
                  ELSE st.tool_calls
        at == delta.index + 1
        named == IF delta.name # NoneName
                 THEN [padded EXCEPT ![at].name = delta.name]
                 ELSE padded
    IN  [tool_calls |-> [named EXCEPT ![at].arguments = @ \o OrEmpty(delta.arguments)],
         uuid |-> IF missing > 0 THEN st.uuid + missing ELSE st.uuid]

RECURSIVE ApplyDeltas(_, _)
ApplyDeltas(st, deltas) ==
    IF deltas = <<>> THEN st ELSE ApplyDeltas(ApplyDelta(st, Head(deltas)), Tail(deltas))

\* Lines 676-775: the body of the async for, for one chunk.
ProcessChunk(chunk) ==
    LET c == IF chunk.content # NoneStr
             THEN ContentEffect(chunk.content)
             ELSE [in_thinking_mode |-> in_thinking_mode,
                   current_thinking_id |-> current_thinking_id,
                   thinking_buffer |-> thinking_buffer,
                   final_answer |-> final_answer,
                   yields |-> <<>>, uuid |-> uuid, skip |-> FALSE]
        fragments == ~c.skip /\ chunk.tool_calls # <<>>
        t == IF fragments
             THEN ApplyDeltas([tool_calls |-> tool_calls, uuid |-> c.uuid], chunk.tool_calls)
             ELSE [tool_calls |-> tool_calls, uuid |-> c.uuid]
    IN  /\ current_message' =
               IF chunk.content # NoneStr
               THEN [current_message EXCEPT !.content = @ \o chunk.content]
               ELSE current_message
        /\ in_thinking_mode' = c.in_thinking_mode
        /\ current_thinking_id' = c.current_thinking_id
        /\ thinking_buffer' = c.thinking_buffer
        /\ final_answer' = c.final_answer
        /\ trail' = trail \o c.yields
        /\ tool_calls' = t.tool_calls
        /\ uuid' = t.uuid
        /\ is_function_calling' = (is_function_calling \/ fragments)
        /\ delivered' = delivered \o chunk.tool_calls
        /\ pc' = IF ~c.skip /\ chunk.finish_reason THEN "finish" ELSE "stream"

ThinkInstruction == <<"When thinking, surround your thoughts with <think></think> tags.">>

TokenStart ==
    /\ mode = "token"
    /\ pc = "start"
    /\ IF ~llm_client
       THEN /\ Stop("failed")
            /\ trail' = Append(trail, FinalToken(NoClientText))
            /\ UNCHANGED messages
       ELSE /\ messages' = InitialMessages(SystemPrompt(AvailableTools) \o ThinkInstruction)
            /\ pc' = "loop"
            /\ UNCHANGED <<result, outcome, trail>>
    /\ UNCHANGED <<regVars, clock, call, orchVars, netVars, lookupVars, taskVars, cfgVars, iterations, execution_trace, uuid, thinkVars,
                   streamVars>>

\* Lines 641-673: the next pass of the while loop asks the model for a stream.
TokenOpenStream ==
    /\ mode = "token"
    /\ pc = "loop"
    /\ WithinLimit
    /\ iterations' = iterations + 1
    /\ IF ~llm_model
       THEN /\ Stop("failed")
            /\ trail' = Append(trail, FinalToken(NoModelText))
            /\ UNCHANGED <<current_message, tool_calls, is_function_calling, delivered>>
       ELSE \/ /\ pc' = "stream"
               /\ trail' = Append(trail, ModelCall)
               /\ current_message' = [role |-> "assistant", content |-> <<>>]
               /\ tool_calls' = <<>>
               /\ is_function_calling' = FALSE
               /\ delivered' = <<>>
               /\ UNCHANGED <<result, outcome>>
            \/ /\ Stop("failed")
               /\ trail' = trail \o <<ModelCall, Responded("raise"),
                                      FinalToken(ExceptionText("Error during token streaming: "))>>
               /\ UNCHANGED <<current_message, tool_calls, is_function_calling, delivered>>
    /\ UNCHANGED <<regVars, clock, call, orchVars, netVars, lookupVars, taskVars, cfgVars, messages, execution_trace, uuid, thinkVars,
                   chunks_read, script>>

\* The model stream hands over one more chunk.
TokenChunk ==
    /\ mode = "token"
    /\ pc = "stream"
    /\ \E chunk \in Chunks :
          /\ chunk # FinishChunk => chunks_read < MaxChunks
          /\ chunks_read' = IF chunk # FinishChunk THEN chunks_read + 1 ELSE chunks_read
          /\ ProcessChunk(chunk)
    /\ UNCHANGED <<regVars, clock, call, orchVars, netVars, lookupVars, taskVars, cfgVars, iterations, messages, execution_trace, result,
                   outcome, script>>

\* The chunks of a model stream decided beforehand.
TokenScriptedChunk ==
    /\ mode = "token"
    /\ pc = "stream"
    /\ script # <<>>
    /\ script' = Tail(script)
    /\ chunks_read' = chunks_read + 1
    /\ ProcessChunk(Head(script))
    /\ UNCHANGED <<regVars, clock, call, orchVars, netVars, lookupVars, taskVars, cfgVars, iterations, messages, execution_trace, result,
                   outcome>>

\* Lines 631-639 and 676: the stream is exhausted before any chunk carried a
\* finish_reason.  An async stream ends the async for.  A sync stream is read
\* through run_in_executor(None, next, it): the StopIteration of next cannot
\* be set on the awaited future, which therefore never completes.
TokenStreamExhausted ==
    /\ mode = "token"
    /\ pc = "stream"
    /\ script = <<>>
    /\ pc' = IF stream_is_async THEN "finish" ELSE "hung"
    /\ UNCHANGED <<regVars, clock, call, orchVars, netVars, lookupVars, taskVars, cfgVars, iterations, messages, execution_trace, result,
                   outcome, trail, uuid, thinkVars, streamVars>>

\* Lines 862-870: reading the stream raises.
TokenStreamRaises ==
    /\ mode = "token"
    /\ pc = "stream"
    /\ script = <<>>
    /\ Stop("failed")
    /\ trail' = trail \o <<Responded("raise"),
                           FinalToken(ExceptionText("Error during token streaming: "))>>
    /\ UNCHANGED <<regVars, clock, call, orchVars, netVars, lookupVars, taskVars, cfgVars, iterations, messages, execution_trace, uuid,
                   thinkVars, streamVars>>

HasName(tc) == tc.name # NoneName

\* Lines 789-846: the assembled calls, one after the other; hows[i] is what
\* the i-th tool does once invoked.
RECURSIVE ExecuteCalls(_, _, _)
ExecuteCalls(calls, hows, next) ==
    IF calls = <<>> THEN [messages |-> <<>>, trail |-> <<>>]
    ELSE LET tool_call == Head(calls)
             function_name == tool_call.name
             \* json.loads(function_args_str), or {} when it fails: over the
             \* argument texts of the model both are the empty object
             function_args == JsonObject
             tool_step_id == next + 1
             r == _call_tool_with_registry(Registry, function_name, Head(hows))
             tool_result == ToolResultOf(function_name, r)
             rest == ExecuteCalls(Tail(calls), Tail(hows), next + 1)
         IN  [messages |-> <<ToolMessage(tool_call.id, tool_result)>> \o rest.messages,
              trail |-> <<ToolStart(tool_step_id, function_name, function_args)>>
                        \o InvokeIf(r, function_name, function_args)
                        \o <<ToolComplete(tool_step_id, function_name, function_args, tool_result)>>
                        \o rest.trail]

\* Lines 777-860: after the async for.
TokenFinish ==
    /\ mode = "token"
    /\ pc = "finish"
    /\ LET valid_tool_calls == SelectSeq(tool_calls, HasName)
       IN  IF is_function_calling /\ valid_tool_calls # <<>>
           THEN \E hows \in [1..Len(valid_tool_calls) -> ToolOutcomes] :
                   LET done == ExecuteCalls(valid_tool_calls, hows, uuid)
                   IN  /\ messages' = messages \o <<AssistantToolCalls(valid_tool_calls)>>
                                               \o done.messages
                       /\ trail' = trail \o <<Responded("tool")>> \o done.trail
                       /\ uuid' = uuid + Len(valid_tool_calls)
                       /\ pc' = "loop"
                       /\ UNCHANGED <<result, outcome>>
           ELSE /\ messages' = Append(messages, current_message)
                /\ trail' = trail \o <<Responded("text"), FinalToken(final_answer)>>
                /\ Stop("completed")
                /\ UNCHANGED uuid
    /\ UNCHANGED <<regVars, clock, call, orchVars, netVars, lookupVars, taskVars, cfgVars, iterations, execution_trace, thinkVars,
                   streamVars>>

TokenLimitText(limit) ==
    <<"Processing exceeded maximum iteration limit (", ToString(limit), ").">>

TokenLimit ==
    /\ mode = "token"
    /\ pc = "loop"
    /\ ~WithinLimit
    /\ Stop("limit")
    /\ trail' = Append(trail, FinalToken(IF final_answer # <<>> THEN final_answer
                                         ELSE TokenLimitText(max_iterations)))
    /\ UNCHANGED <<regVars, clock, call, orchVars, netVars, lookupVars, taskVars, cfgVars, iterations, messages, execution_trace, uuid,
                   thinkVars, streamVars>>

\* ========================================================================
\* Orchestrator (src/core/orchestrator.py, src/plugins/json_mcp.py)
\* ========================================================================
\* The names connect_service is given ("" stands for no name).  A name is free
\* text, so it may be the text of a URL.
Names == {"", "a", "u2"}

\* ---------------------------------------------------------------- mcp.json
\* MCPConfig.add_service: the entry is keyed by the service name.  save_ok
\* tells whether writing the file succeeded.
mcp_add_service(servers, name, url, save_ok) ==
    IF name = "" \/ url = "" \/ ~save_ok
    THEN [ok |-> FALSE, servers |-> servers]
    ELSE [ok |-> TRUE, servers |-> DictPut(servers, name, url)]

mcp_remove_service(servers, name, save_ok) ==
    IF DictHas(servers, name) /\ save_ok
    THEN [ok |-> TRUE, servers |-> DictDel(servers, name)]
    ELSE [ok |-> FALSE, servers |-> servers]

\* --------------------------------------------------------- load_from_config
\* Variant with a seeded change: the registry offers clear() and it empties
\* the five maps.
registry_clear_empties(R) == [raised |-> FALSE, reg |-> EmptyRegistry]

\* self.registry.clear(): ServiceRegistry defines no clear, the call raises
\* AttributeError.
registry_clear(R) == [raised |-> TRUE, reg |-> R]

\* The loop over config_dict["mcpServers"]: every name gets the one client.
RECURSIVE RegisterAll(_, _, _, _, _)
RegisterAll(servers, client, table, R, now) ==
    IF servers = <<>> THEN [clients |-> table, reg |-> R]
    ELSE LET name == Head(servers)[1]
         IN  RegisterAll(Tail(servers), client, DictPut(table, name, client),
                         add_service(R, name, client, <<>>, name, now).reg, now)

load_from_config(servers, R, now) ==
    LET client == SessionObject(1)
        cleared == registry_clear(R)
        registered == RegisterAll(servers, client, <<>>, cleared.reg, now)
    IN  IF cleared.raised
        THEN [clients |-> <<>>, reg |-> R, raised |-> TRUE]
        ELSE [clients |-> registered.clients, reg |-> registered.reg, raised |-> FALSE]

\* ------------------------------------------- connect_service, disconnect_service
\* `ret` is what the call returns when it does not raise.
connect_service(servers, table, R, url, name, save_ok, now) ==
    LET service_name == IF name = "" THEN url ELSE name
        added == mcp_add_service(servers, service_name, url, save_ok)
        loaded == load_from_config(added.servers, R, now)
    IN  IF added.ok
        THEN [servers |-> added.servers, clients |-> loaded.clients, reg |-> loaded.reg,
              ok |-> TRUE, ret |-> TRUE, raised |-> loaded.raised]
        ELSE [servers |-> servers, clients |-> table, reg |-> R, ok |-> FALSE,
              ret |-> FALSE, raised |-> FALSE]

disconnect_service(servers, table, R, url, save_ok, now) ==
    LET hits == {i \in DOMAIN servers : servers[i][2] = url \/ servers[i][1] = url}
        name_to_remove == servers[CHOOSE i \in hits : \A j \in hits : i <= j][1]
        removed == mcp_remove_service(servers, name_to_remove, save_ok)
        loaded == load_from_config(removed.servers, R, now)
    IN  IF hits # {} /\ removed.ok
        THEN [servers |-> removed.servers, clients |-> loaded.clients, reg |-> loaded.reg,
              ok |-> TRUE, ret |-> TRUE, raised |-> loaded.raised]
        ELSE [servers |-> servers, clients |-> table, reg |-> R, ok |-> FALSE,
              ret |-> FALSE, raised |-> FALSE]

\* ---------------------------------------------------- _attempt_reconnections
\* How one reconnect attempt ended.
AttemptOutcome(c) == IF c.raised THEN "raised" ELSE IF c.ret THEN "success" ELSE "failed"

\* Variant with a seeded fault: a name whose attempt raised is dropped too.
StaysPendingOnlyFailed(ended) == ended = "failed"

\* Only a successful attempt discards the name.
StaysPending(ended) == ended # "success"

\* names_to_retry is the snapshot list(self.pending_reconnection); an attempt
\* that raises is caught.  `attempts` lists the names tried and how each ended.
RECURSIVE attempt_reconnections(_, _, _, _, _, _, _, _)
attempt_reconnections(servers, table, R, pending, names_to_retry, attempts, save_ok, now) ==
    IF names_to_retry = <<>>
    THEN [servers |-> servers, clients |-> table, reg |-> R, pending |-> pending,
          attempts |-> attempts]
    ELSE LET name == Head(names_to_retry)
             c == connect_service(servers, table, R, name, name, save_ok, now)
             ended == AttemptOutcome(c)
         IN  attempt_reconnections(c.servers, c.clients, c.reg,
                                   IF StaysPending(ended) THEN pending ELSE pending \ {name},
                                   Tail(names_to_retry), Append(attempts, <<name, ended>>),
                                   save_ok, now)

\* The orders in which list(a_set) may come out.
Orders(S) ==
    {s \in SeqsUpTo(S, Cardinality(S)) :
        Len(s) = Cardinality(S) /\ {s[i] : i \in DOMAIN s} = S}

\* ------------------------------------------------------------ orchestrator state
\* `probe` is the answer the probe in flight is going to get.
NoIter == [used |-> 0, pos |-> 0, name |-> "", probe |-> ""]

\* A finished call: `ok` tells whether mcp.json was written, `ret` what the
\* call returned, `raised` whether it ended in an exception instead.
OrchCall(op, url, name, r) ==
    [op |-> op, url |-> url, name |-> name, ok |-> r.ok, ret |-> r.ret, raised |-> r.raised,
     attempts |-> <<>>]

NoOutcome == [ok |-> FALSE, ret |-> FALSE, raised |-> FALSE]

\* MCPOrchestrator.__init__: nothing connected, no task started.
OrchFresh ==
    /\ clients = <<>>
    /\ pending_reconnection = {}
    /\ heartbeat_task = "none"
    /\ reconnection_task = "none"
    /\ health_iter = NoIter
    /\ cleanup_pc = "idle"
    /\ react_agent = FALSE
    /\ disconnected = {}
    /\ cleanup_from = <<>>
    /\ orch_call = OrchCall("none", "", "", NoOutcome)

\* `task and not task.done()`.
Live(task) == task \in {"sleeping", "probing", "cancelling"}

\* Variant with a seeded fault: a task counts as finished as soon as its
\* cancellation is requested.
FinishedOrCancelling(task) == task \in {"cancelled", "failed", "cancelling"}

Finished(task) == task \in {"cancelled", "failed"}

\* The URLs mcp.json holds a service for.
ConfiguredUrls(servers) == {servers[i][2] : i \in DOMAIN servers}

\* ---------------------------------------------------------- the public calls
\* setup() and refresh_services().
LoadFromConfig ==
    /\ cleanup_pc = "idle"
    /\ LET r == load_from_config(mcp_servers, Registry, clock)
       IN  /\ clients' = r.clients
           /\ SetRegistry(r.reg)
           /\ orch_call' = OrchCall("load_from_config", "", "", [NoOutcome EXCEPT !.raised = r.raised])
    /\ UNCHANGED <<mcp_servers, pending_reconnection, heartbeat_task, reconnection_task,
                   health_iter, cleanup_pc, react_agent, disconnected, cleanup_from>>

\* connect_service, called directly or by MCPConfigAPI.update_config and
\* register_services, which put the URL on the pending set when the call
\* returns False.
ConnectService ==
    /\ cleanup_pc = "idle"
    /\ \E url \in Urls, name \in Names, save_ok \in BOOLEAN, by_config_api \in BOOLEAN :
         LET r == connect_service(mcp_servers, clients, Registry, url, name, save_ok, clock)
         IN  /\ mcp_servers' = r.servers
             /\ clients' = r.clients
             /\ SetRegistry(r.reg)
             /\ pending_reconnection' =
                   IF by_config_api /\ ~r.raised /\ ~r.ret
                   THEN pending_reconnection \cup {url}
                   ELSE pending_reconnection
             /\ disconnected' = IF r.ok THEN disconnected \ {url} ELSE disconnected
             /\ orch_call' = OrchCall("connect_service", url, name, r)
    /\ UNCHANGED <<heartbeat_task, reconnection_task, health_iter, cleanup_pc, react_agent,
                   cleanup_from>>

DisconnectService ==
    /\ cleanup_pc = "idle"
    /\ \E url \in Urls \cup (Names \ {""}), save_ok \in BOOLEAN :
         LET r == disconnect_service(mcp_servers, clients, Registry, url, save_ok, clock)
         IN  /\ mcp_servers' = r.servers
             /\ clients' = r.clients
             /\ SetRegistry(r.reg)
             /\ disconnected' = disconnected \cup
                                   (ConfiguredUrls(mcp_servers) \ ConfiguredUrls(r.servers))
             /\ orch_call' = OrchCall("disconnect_service", url, "", r)
    /\ UNCHANGED <<pending_reconnection, heartbeat_task, reconnection_task, health_iter,
                   cleanup_pc, react_agent, cleanup_from>>

StartMonitoring ==
    /\ cleanup_pc = "idle"
    /\ heartbeat_task' = IF Live(heartbeat_task) THEN heartbeat_task ELSE "sleeping"
    /\ reconnection_task' = IF Live(reconnection_task) THEN reconnection_task ELSE "sleeping"
    /\ orch_call' = OrchCall("start_monitoring", "", "", NoOutcome)
    /\ UNCHANGED <<regVars, mcp_servers, clients, pending_reconnection, health_iter, cleanup_pc,
                   react_agent, disconnected, cleanup_from>>

\* ------------------------------------------------------------ heartbeat task
\* next() of the iterator of `for name in self.clients`: the dict must have
\* the size it had when the iterator was made.
NextProbe(table, used, pos) ==
    IF Len(table) # used THEN "RuntimeError"
    ELSE IF pos < Len(table) THEN "probe"
    ELSE "exhausted"

\* The heartbeat task runs from one suspension to the next: from the sleep
\* into a health pass, which suspends in the probe of each name, or to the end
\* of the pass and into the next sleep.  A cancelled task ends where it waits.
HeartbeatStep ==
    /\ Live(heartbeat_task)
    /\ \E probe \in {"healthy", "unhealthy", "raises"} :
         LET probing == heartbeat_task = "probing"
             healthy == probing /\ health_iter.probe = "healthy"
             used == IF probing THEN health_iter.used ELSE Len(clients)
             pos == IF probing THEN health_iter.pos ELSE 0
             step == NextProbe(clients, used, pos)
         IN  IF heartbeat_task = "cancelling"
             THEN /\ heartbeat_task' = "cancelled"
                  /\ health_iter' = NoIter
                  /\ UNCHANGED <<regVars, pending_reconnection, orch_call>>
             ELSE /\ SetRegistry(IF healthy
                                 THEN update_service_health(Registry, health_iter.name, clock)
                                 ELSE Registry)
                  /\ pending_reconnection' =
                        IF probing /\ ~healthy
                        THEN pending_reconnection \cup {health_iter.name}
                        ELSE pending_reconnection
                  /\ heartbeat_task' = CASE step = "RuntimeError" -> "failed"
                                          [] step = "probe" -> "probing"
                                          [] OTHER -> "sleeping"
                  /\ health_iter' = IF step = "probe"
                                    THEN [used |-> used, pos |-> pos + 1,
                                          name |-> clients[pos + 1][1], probe |-> probe]
                                    ELSE NoIter
                  /\ orch_call' = IF step = "probe" THEN orch_call
                                  ELSE OrchCall("_check_services_health", "", "",
                                                [NoOutcome EXCEPT !.raised = (step = "RuntimeError")])
    /\ UNCHANGED <<mcp_servers, clients, cleanup_pc, reconnection_task, react_agent,
                   disconnected, cleanup_from>>

\* ---------------------------------------------------------- reconnection task
\* One pass has no suspension of its own: connect_service and load_from_config
\* await nothing that waits.
ReconnectionStep ==
    /\ Live(reconnection_task)
    /\ IF reconnection_task = "cancelling"
       THEN /\ reconnection_task' = "cancelled"
            /\ UNCHANGED <<regVars, mcp_servers, clients, pending_reconnection, orch_call>>
       ELSE \E save_ok \in BOOLEAN, names_to_retry \in Orders(pending_reconnection) :
              LET r == attempt_reconnections(mcp_servers, clients, Registry, pending_reconnection,
                                             names_to_retry, <<>>, save_ok, clock)
              IN  /\ mcp_servers' = r.servers
                  /\ clients' = r.clients
                  /\ SetRegistry(r.reg)
                  /\ pending_reconnection' = r.pending
                  /\ orch_call' = [op |-> "_attempt_reconnections", url |-> "", name |-> "",
                                   ok |-> NoOutcome.ok, ret |-> NoOutcome.ret,
                                   raised |-> NoOutcome.raised, attempts |-> r.attempts,
                                   before |-> mcp_servers]
                  /\ UNCHANGED reconnection_task
    /\ UNCHANGED <<heartbeat_task, health_iter, cleanup_pc, react_agent, disconnected, cleanup_from>>

\* -------------------------------------------------------------------- cleanup
\* for name in list(self.clients.keys()): await self.disconnect_service(name)
RECURSIVE DisconnectAll(_, _, _, _, _, _)
DisconnectAll(servers, table, R, names, save_ok, now) ==
    IF names = <<>>
    THEN [servers |-> servers, clients |-> table, reg |-> R, raised |-> FALSE]
    ELSE LET d == disconnect_service(servers, table, R, Head(names), save_ok, now)
         IN  IF d.raised
             THEN [servers |-> d.servers, clients |-> d.clients, reg |-> d.reg, raised |-> TRUE]
             ELSE DisconnectAll(d.servers, d.clients, d.reg, Tail(names), save_ok, now)

\* cleanup() runs from one suspension to the next: it cancels a task that is
\* not done and awaits it, first the heartbeat task, then the reconnection
\* task, and then disconnects every name of the endpoint table.
CleanupStep ==
    /\ cleanup_pc \in {"idle", "await_heartbeat", "await_reconnection"}
    /\ cleanup_pc = "await_heartbeat" => Finished(heartbeat_task)
    /\ cleanup_pc = "await_reconnection" => Finished(reconnection_task)
    /\ \E save_ok \in BOOLEAN :
         LET names == [i \in DOMAIN clients |-> clients[i][1]]
             d == DisconnectAll(mcp_servers, clients, Registry, names, save_ok, clock)
         IN  IF cleanup_pc = "idle" /\ Live(heartbeat_task)
             THEN /\ heartbeat_task' = "cancelling"
                  /\ cleanup_pc' = "await_heartbeat"
                  /\ UNCHANGED <<regVars, mcp_servers, clients, reconnection_task, orch_call>>
             ELSE IF cleanup_pc # "await_reconnection" /\ Live(reconnection_task)
             THEN /\ reconnection_task' = "cancelling"
                  /\ cleanup_pc' = "await_reconnection"
                  /\ UNCHANGED <<regVars, mcp_servers, clients, heartbeat_task, orch_call>>
             ELSE /\ mcp_servers' = d.servers
                  /\ clients' = d.clients
                  /\ SetRegistry(d.reg)
                  /\ cleanup_pc' = IF d.raised THEN "raised" ELSE "done"
                  /\ orch_call' = OrchCall("cleanup", "", "", [NoOutcome EXCEPT !.raised = d.raised])
                  /\ UNCHANGED <<heartbeat_task, reconnection_task>>
    /\ cleanup_from' = IF cleanup_pc = "idle" THEN mcp_servers ELSE cleanup_from
    /\ UNCHANGED <<pending_reconnection, health_iter, react_agent, disconnected>>

\* ------------------------------------------------------ process_unified_query
\* What reading `react_agent` of a connected Client gives, and how the query
\* handed to a Client ends: both are decided outside this program.
AgentAttrs == {"agent", "none", "AttributeError"}

Delegations == {"returns", "raises"}

ErrorNoServices == "Error: No services connected. Please connect at least one MCP service."

\* Variant with a seeded fault: a react query keeps its mode when no agent is found.
process_unified_query_keeps_mode(table, agent, query_mode, attr, delegated) ==
    LET searches == query_mode = "react" /\ ~agent /\ table # <<>>
        found == agent \/ (searches /\ attr = "agent")
    IN  IF searches /\ attr = "AttributeError"
        THEN [react_agent |-> agent, mode |-> query_mode, by |-> "", raised |-> TRUE,
              result |-> ""]
        ELSE IF table # <<>>
        THEN [react_agent |-> found, mode |-> query_mode, by |-> table[1][1],
              raised |-> delegated = "raises",
              result |-> IF delegated = "raises" THEN "" ELSE "delegated"]
        ELSE [react_agent |-> found, mode |-> query_mode, by |-> "", raised |-> FALSE,
              result |-> ErrorNoServices]

\* `by` is the name whose Client the query is handed to, `result` what the
\* call returns when it does not raise.
process_unified_query(table, agent, query_mode, attr, delegated) ==
    LET searches == query_mode = "react" /\ ~agent /\ table # <<>>
        found == agent \/ (searches /\ attr = "agent")
        used_mode == IF query_mode = "react" /\ ~found THEN "standard" ELSE query_mode
    IN  IF searches /\ attr = "AttributeError"
        THEN [react_agent |-> agent, mode |-> query_mode, by |-> "", raised |-> TRUE,
              result |-> ""]
        ELSE IF table # <<>>
        THEN [react_agent |-> found, mode |-> used_mode, by |-> table[1][1],
              raised |-> delegated = "raises",
              result |-> IF delegated = "raises" THEN "" ELSE "delegated"]
        ELSE [react_agent |-> found, mode |-> used_mode, by |-> "", raised |-> FALSE,
              result |-> ErrorNoServices]

ProcessUnifiedQuery ==
    /\ cleanup_pc = "idle"
    /\ \E query_mode \in {"react", "standard"}, attr \in AgentAttrs, delegated \in Delegations :
         LET r == process_unified_query(clients, react_agent, query_mode, attr, delegated)
         IN  /\ react_agent' = r.react_agent
             /\ orch_call' = [op |-> "process_unified_query", url |-> "", name |-> r.by,
                              ok |-> FALSE, ret |-> r.result # ErrorNoServices,
                              raised |-> r.raised, attempts |-> <<>>,
                              asked |-> query_mode, mode |-> r.mode, result |-> r.result]
    /\ UNCHANGED <<regVars, mcp_servers, clients, pending_reconnection, heartbeat_task,
                   reconnection_task, health_iter, cleanup_pc, disconnected, cleanup_from>>

\* ========================================================================
\* Streamable HTTP transport (src/core/transport.py)
\* ========================================================================
\* Header values; "" stands for an absent (or empty) header and for None.
SessionIds == {"s1", "s2"}

EventIds == {"e1", "e2"}

\* Variant with a seeded fault: notifications go out without the session header.
RequestHeadersBareNotification(kind, stored, event) ==
    [kind |-> kind,
     session |-> IF kind \in {"initialize", "notification"} THEN "" ELSE stored,
     event |-> IF kind \in {"request", "listen"} THEN event ELSE ""]

\* The headers of one request: every request but initialize carries the stored
\* session id when there is one; requests and the listening GET also carry the
\* last event id.
RequestHeaders(kind, stored, event) ==
    [kind |-> kind,
     session |-> IF kind = "initialize" THEN "" ELSE stored,
     event |-> IF kind \in {"request", "listen"} THEN event ELSE ""]

\* No response is being read.
SseFresh ==
    /\ stream = <<>>
    /\ eol = <<>>
    /\ unread = <<>>
    /\ buffer = <<>>
    /\ yielded = <<>>

NetFresh ==
    /\ session_id = ""
    /\ last_event_id = ""
    /\ received = ""
    /\ client_closed = FALSE
    /\ sent = RequestHeaders("none", "", "")
    /\ records = <<>>
    /\ SseFresh

\* initialize(): status_ok is raise_for_status, header the session header of
\* the response.
Initialize ==
    /\ ~client_closed
    /\ \E status_ok \in BOOLEAN, header \in SessionIds \cup {""} :
         LET stores == status_ok /\ header # ""
         IN  /\ sent' = RequestHeaders("initialize", session_id, last_event_id)
             /\ session_id' = IF stores THEN header ELSE session_id
             /\ received' = IF stores THEN header ELSE received
    /\ UNCHANGED <<last_event_id, client_closed, records, sseVars>>

\* A record of an SSE response, as far as its id goes: it has no `id:` line,
\* or one with an empty value, or one with an event id.
NoIdLine == "no id line"

IdFields == EventIds \cup {"", NoIdLine}

MaxRecords == 2

\* Variant with a seeded fault: an `id:` line with an empty value is skipped.
RECURSIVE read_records_skips_empty(_, _)
read_records_skips_empty(last, read) ==
    IF read = <<>> THEN last
    ELSE read_records_skips_empty(IF Head(read) \in {NoIdLine, ""} THEN last ELSE Head(read),
                                  Tail(read))

\* The record loop of send_request and listen_server: every `id:` line read
\* is assigned to last_event_id, whatever its value.
RECURSIVE read_records(_, _)
read_records(last, read) ==
    IF read = <<>> THEN last
    ELSE read_records(IF Head(read) = NoIdLine THEN last ELSE Head(read), Tail(read))

\* send_request() and listen_server(): the headers go out, then the caller
\* reads records of the response, none when the response is not an event
\* stream or the request fails.
SendRequest ==
    /\ ~client_closed
    /\ \E kind \in {"request", "listen"}, read \in SeqsUpTo(IdFields, MaxRecords) :
         /\ sent' = RequestHeaders(kind, session_id, last_event_id)
         /\ last_event_id' = read_records(last_event_id, read)
         /\ records' = read
    /\ UNCHANGED <<session_id, received, client_closed, sseVars>>

SendNotification ==
    /\ ~client_closed
    /\ sent' = RequestHeaders("notification", session_id, last_event_id)
    /\ UNCHANGED <<session_id, last_event_id, received, client_closed, records, sseVars>>

\* close(): the DELETE goes out only when a session id is stored.
Close ==
    /\ ~client_closed
    /\ sent' = IF session_id # "" THEN RequestHeaders("delete", session_id, last_event_id)
               ELSE sent
    /\ client_closed' = TRUE
    /\ UNCHANGED <<session_id, last_event_id, received, records, sseVars>>

\* ------------------------------------------------- reading an event stream
\* Text is a sequence of characters; a field name, a JSON document and an
\* event id each count as one character, so that a response can be cut
\* between any two of them.
LF == "LF"

CR == "CR"

\* The line terminators of an event stream that servers write.
LineEnds == {<<LF>>, <<CR, LF>>}

\* json.loads(value): "j" and "k" are JSON objects, "0" is the empty object,
\* anything else raises JSONDecodeError.
JsonDocuments == {<<"j">>, <<"k">>, <<"0">>}

NoEventData == "0"

\* Lines of a record: data lines with a payload (after a space or not), with
\* an empty object, with text that is not JSON; a comment; an id line.
SseLines ==
    {<<"data", ":", " ", "j">>, <<"data", ":", "k">>, <<"data", ":", "0">>,
     <<"data", ":", "x">>, <<":", "c">>, <<"id", ":", "e1">>}

IsDataLine(line) == Head(line) = "data"

\* Records of one or two lines with at most one data line.
SseRecords ==
    {r \in SeqsUpTo(SseLines, 2) :
        /\ r # <<>>
        /\ Len(r) = 2 => ~(IsDataLine(r[1]) /\ IsDataLine(r[2]))}

\* The characters the server writes for a list of records: every line and
\* the blank line after each record end with the line terminator.
RECURSIVE WriteLines(_, _)
WriteLines(lines, end) ==
    IF lines = <<>> THEN <<>>
    ELSE Head(lines) \o end \o WriteLines(Tail(lines), end)

RECURSIVE WriteRecords(_, _)
WriteRecords(recs, end) ==
    IF recs = <<>> THEN <<>>
    ELSE WriteLines(Head(recs), end) \o end \o WriteRecords(Tail(recs), end)

\* `"\n\n" in buffer`: where the first one starts, 0 when there is none.
DelimiterAt(buf) ==
    LET hits == {i \in 1..(Len(buf) - 1) : buf[i] = LF /\ buf[i + 1] = LF}
    IN  IF hits = {} THEN 0 ELSE CHOOSE i \in hits : \A j \in hits : i <= j

\* str.split(sep) on one character.
RECURSIVE Split(_, _)
Split(text, sep) ==
    LET hits == {i \in DOMAIN text : text[i] = sep}
        first == CHOOSE i \in hits : \A j \in hits : i <= j
    IN  IF hits = {} THEN <<text>>
        ELSE <<SubSeq(text, 1, first - 1)>> \o Split(SubSeq(text, first + 1, Len(text)), sep)

\* value.lstrip() (LStrip) and the string held by last_event_id.
TextOf(value) == IF value = <<>> THEN "" ELSE IF Len(value) = 1 THEN value[1] ELSE "other"

\* One line of a record: st holds event_data and last_event_id.
ParseLine(line, st) ==
    LET colons == {i \in DOMAIN line : line[i] = ":"}
        colon == CHOOSE i \in colons : \A j \in colons : i <= j
        field == SubSeq(line, 1, colon - 1)
        value == LStrip(SubSeq(line, colon + 1, Len(line)))
    IN  IF line = <<>> \/ Head(line) = ":" THEN st
        ELSE IF colons = {} THEN st
        ELSE IF field = <<"id">> THEN [st EXCEPT !.last = TextOf(value)]
        ELSE IF field = <<"data">> /\ value \in JsonDocuments
        THEN [st EXCEPT !.event_data = value[1]]
        ELSE st

RECURSIVE ParseLines(_, _)
ParseLines(lines, st) ==
    IF lines = <<>> THEN st ELSE ParseLines(Tail(lines), ParseLine(Head(lines), st))

\* Variant with a seeded fault: the text after a delimiter is thrown away.
RECURSIVE DrainForgetsRest(_, _, _)
DrainForgetsRest(buf, events, last) ==
    LET at == DelimiterAt(buf)
        st == ParseLines(Split(SubSeq(buf, 1, at - 1), LF),
                         [event_data |-> NoEventData, last |-> last])
    IN  IF at = 0 THEN [buffer |-> buf, yielded |-> events, last |-> last]
        ELSE [buffer |-> <<>>,
              yielded |-> IF st.event_data # NoEventData
                          THEN Append(events, st.event_data) ELSE events,
              last |-> st.last]

\* while "\n\n" in buffer: split the first message off, read its lines and
\* yield its event data when that is truthy.
RECURSIVE Drain(_, _, _)
Drain(buf, events, last) ==
    LET at == DelimiterAt(buf)
        st == ParseLines(Split(SubSeq(buf, 1, at - 1), LF),
                         [event_data |-> NoEventData, last |-> last])
    IN  IF at = 0 THEN [buffer |-> buf, yielded |-> events, last |-> last]
        ELSE Drain(SubSeq(buf, at + 2, Len(buf)),
                   IF st.event_data # NoEventData THEN Append(events, st.event_data) ELSE events,
                   st.last)

\* One turn of `async for chunk in response.aiter_text()`: the next chunk, of
\* any length, is added to the buffer and the buffer is drained.
ReadChunk ==
    /\ unread # <<>>
    /\ \E n \in 1..Len(unread) :
         LET d == Drain(buffer \o SubSeq(unread, 1, n), yielded, last_event_id)
         IN  /\ unread' = SubSeq(unread, n + 1, Len(unread))
             /\ buffer' = d.buffer
             /\ yielded' = d.yielded
             /\ last_event_id' = d.last
    /\ UNCHANGED <<stream, eol, session_id, received, client_closed, sent, records>>

\* ========================================================================
\* Lookups interleaved with registry mutations
\* ========================================================================
\* The registry after each assignment of remove_service, in program order:
\* the session is popped first, then the health record and the name, then
\* the tools one by one, each from the cache before the tool-name map.
RECURSIVE DropSteps(_, _)
DropSteps(R, gone) ==
    IF gone = <<>> THEN <<>>
    ELSE LET uncached == [R EXCEPT !.tool_cache = DictDel(@, Head(gone))]
             unmapped == [uncached EXCEPT !.tool_to_session_map = DictDel(@, Head(gone))]
         IN  <<uncached, unmapped>> \o DropSteps(unmapped, Tail(gone))

remove_service_steps(R, url) ==
    LET session == DictGet(R.sessions, url, None)
        popped == [R EXCEPT !.sessions = DictDel(@, url)]
        no_health == [popped EXCEPT !.service_health = DictDel(@, url)]
        no_name == [no_health EXCEPT !.service_names = DictDel(@, url)]
        owned == SelectSeq(R.tool_to_session_map, LAMBDA p : OwnedBy(p, session))
        tools_to_remove == [i \in DOMAIN owned |-> owned[i][1]]
    IN  IF ~session.truthy THEN <<popped>>
        ELSE <<popped, no_health, no_name>> \o DropSteps(no_name, tools_to_remove)

\* The registry after each assignment of add_service: the removal of an old
\* registration, the three per-URL entries, then each accepted tool, its
\* definition before its owner.
RECURSIVE InstallSteps(_, _, _)
InstallSteps(R, session, tools) ==
    IF tools = <<>> THEN <<>>
    ELSE LET tool_name == Head(tools)[1]
             cached == [R EXCEPT !.tool_cache = DictPut(@, tool_name, Head(tools)[2])]
             mapped == [cached EXCEPT !.tool_to_session_map = DictPut(@, tool_name, session)]
         IN  IF DictHas(R.tool_cache, tool_name)
             THEN InstallSteps(R, session, Tail(tools))
             ELSE <<cached, mapped>> \o InstallSteps(mapped, session, Tail(tools))

add_service_steps(R, url, session, tools, name, now) ==
    LET removal == IF DictHas(R.sessions, url) THEN remove_service_steps(R, url) ELSE <<>>
        cleared == IF removal = <<>> THEN R ELSE removal[Len(removal)]
        with_session == [cleared EXCEPT !.sessions = DictPut(@, url, session)]
        with_health == [with_session EXCEPT !.service_health = DictPut(@, url, now)]
        with_name == [with_health EXCEPT
                         !.service_names = DictPut(@, url, IF name # "" THEN name ELSE url)]
    IN  removal \o <<with_session, with_health, with_name>>
            \o InstallSteps(with_name, session, tools)

\* Variant with a seeded fault: the caller yields to the event loop after
\* every assignment.
SuspendsAfterEveryAssignment(steps, i) == TRUE

\* Whether the running task is suspended after assignment i of a registry
\* call.  add_service, remove_service and update_service_health are plain
\* functions without an await, and every caller runs on the event loop.
Suspends(steps, i) == FALSE

\* The task runs up to its next suspension, or to the end of the call.
RunToSuspension(steps) ==
    LET stops == {i \in DOMAIN steps : i = Len(steps) \/ Suspends(steps, i)}
        stop == CHOOSE i \in stops : \A j \in stops : i <= j
    IN  /\ SetRegistry(steps[stop])
        /\ in_progress' = SubSeq(steps, stop + 1, Len(steps))

\* One scheduling of the task that mutates the registry.
MutatorStep ==
    /\ IF in_progress # <<>> THEN RunToSuspension(in_progress)
       ELSE \E op \in {"add_service", "remove_service", "update_service_health"},
               url \in Urls, session \in SessionPool, name \in DisplayNames :
              \E tools \in ToolLists(url) :
                RunToSuspension(
                    CASE op = "add_service" ->
                             add_service_steps(Registry, url, session, tools, name, clock)
                      [] op = "remove_service" -> remove_service_steps(Registry, url)
                      [] OTHER -> <<update_service_health(Registry, url, clock)>>)
    /\ UNCHANGED <<clock, call, seen, taskVars>>

IndexBroken(R) ==
    \E i \in DOMAIN R.tool_to_session_map :
        \A j \in DOMAIN R.sessions :
            ~SessionIs(R.sessions[j][2], R.tool_to_session_map[i][2])

\* No registry call is running and no lookup has been made.
LookupFresh ==
    /\ in_progress = <<>>
    /\ seen = [tool |-> "none", half_applied |-> FALSE, index_broken |-> FALSE,
               stray |-> FALSE, listed |-> FALSE, resolved |-> FALSE]

\* An agent loop, scheduled between two runs of other tasks, lists the tools
\* and resolves one tool name.
Lookup ==
    /\ \E tool_name \in ToolNames :
         LET all_tools == get_all_tools(Registry)
         IN  seen' = [tool |-> tool_name,
                      half_applied |-> in_progress # <<>>,
                      index_broken |-> IndexBroken(Registry),
                      stray |-> \E i \in DOMAIN all_tools : all_tools[i].service_url = "none",
                      listed |-> \E i \in DOMAIN all_tools : all_tools[i].name = tool_name,
                      resolved |-> get_session_for_tool(Registry, tool_name).truthy]
    /\ UNCHANGED <<regVars, clock, call, in_progress, taskVars>>

\* ========================================================================
\* Concurrent queries with a trace (src/core/client.py, enhanced_client.py)
\* ========================================================================
MaxTasks == 2

Tasks == 1..MaxTasks

\* A query that has not been started; `steps` lists every step of its run,
\* `trace` is the trace process_query_with_trace returned.
NoTraceReturned == [none |-> TRUE, steps |-> <<>>]

\* execution_trace if self.enable_trace else None
TraceReturned(recorded) ==
    IF enable_trace THEN [none |-> FALSE, steps |-> recorded] ELSE NoTraceReturned

NewTask ==
    [pc |-> "new", original |-> FALSE, iterations |-> 0, execution_trace |-> <<>>,
     steps |-> <<>>, trace |-> NoTraceReturned]

TasksFresh ==
    /\ tasks = [q \in Tasks |-> NewTask]
    /\ running = 0

\* What one model call of process_query leads to: a final answer, a tool
\* call, a tool call whose arguments are not JSON, an exception.
ModelAnswers == {"answer", "tool_call", "bad_args", "raises"}

\* process_query returns and process_query_with_trace restores the flag it
\* saved: nothing is awaited in between.
ReturnTrace(q, t, returned) ==
    /\ tasks' = [tasks EXCEPT ![q] = [t EXCEPT !.pc = "done", !.trace = returned]]
    /\ enable_trace' = t.original
    /\ running' = 0

\* process_query_with_trace up to the loop of process_query: the flag is
\* saved and set, the tools come from the registry without waiting.
TraceCall(q) ==
    /\ running = 0
    /\ tasks[q].pc = "new"
    /\ LET t == [tasks[q] EXCEPT !.original = enable_trace]
       IN  IF ~llm_client THEN ReturnTrace(q, t, NoTraceReturned)
           ELSE /\ tasks' = [tasks EXCEPT ![q] = [t EXCEPT !.pc = "running"]]
                /\ enable_trace' = TRUE
                /\ running' = q
    /\ UNCHANGED <<react_enable_trace, mode, llm_client, llm_model, max_iterations,
                   has_registry, stream_is_async, loopVars, thinkVars, streamVars>>

\* One pass of the loop of process_query, which runs without waiting up to
\* the tool call or the return.
ModelRound(q) ==
    /\ running = q
    /\ tasks[q].pc = "running"
    /\ LET t == tasks[q]
           i == t.iterations + 1
           said == [role |-> "assistant", iteration |-> i]
           used == [role |-> "tool", iteration |-> i]
           thought == [t EXCEPT !.iterations = i,
                                !.execution_trace = IF enable_trace THEN Append(@, said) ELSE @,
                                !.steps = Append(@, said)]
           acted == [thought EXCEPT
                        !.execution_trace = IF enable_trace THEN Append(@, used) ELSE @,
                        !.steps = Append(@, used)]
       IN  IF t.iterations >= max_iterations
           THEN ReturnTrace(q, t, TraceReturned(t.execution_trace))
           ELSE IF ~llm_model THEN ReturnTrace(q, [t EXCEPT !.iterations = i], NoTraceReturned)
           ELSE \E response \in ModelAnswers :
                  CASE response = "raises" ->
                         ReturnTrace(q, [t EXCEPT !.iterations = i], NoTraceReturned)
                    [] response = "answer" ->
                         ReturnTrace(q, thought, TraceReturned(thought.execution_trace))
                    [] response = "tool_call" ->
                         /\ tasks' = [tasks EXCEPT ![q] = [thought EXCEPT !.pc = "awaiting_tool"]]
                         /\ running' = 0
                         /\ UNCHANGED enable_trace
                    [] OTHER ->
                         /\ tasks' = [tasks EXCEPT ![q] = acted]
                         /\ UNCHANGED <<running, enable_trace>>
    /\ UNCHANGED <<react_enable_trace, mode, llm_client, llm_model, max_iterations,
                   has_registry, stream_is_async, loopVars, thinkVars, streamVars>>

\* The awaited tool call returns or raises: its result is recorded and the
\* query runs on.
ToolReturns(q) ==
    /\ running = 0
    /\ tasks[q].pc = "awaiting_tool"
    /\ LET t == tasks[q]
           used == [role |-> "tool", iteration |-> t.iterations]
       IN  tasks' = [tasks EXCEPT ![q] =
                        [t EXCEPT !.pc = "running",
                                  !.execution_trace = IF enable_trace THEN Append(@, used) ELSE @,
                                  !.steps = Append(@, used)]]
    /\ running' = q
    /\ UNCHANGED <<enable_trace, react_enable_trace, mode, llm_client, llm_model,
                   max_iterations, has_registry, stream_is_async, loopVars, thinkVars,
                   streamVars>>

\* ========================================================================
\* Specifications
\* ========================================================================
\* No query has been started.
AgentFresh ==
    /\ pc = "start"
    /\ iterations = 0
    /\ messages = <<>>
    /\ execution_trace = <<>>
    /\ result = NoResult
    /\ outcome = "none"
    /\ trail = <<>>
    /\ uuid = 0
    /\ final_answer = <<>>
    /\ thinking_buffer = <<>>
    /\ current_thinking_id = NoId
    /\ in_thinking_mode = FALSE
    /\ current_message = [role |-> "assistant", content |-> <<>>]
    /\ tool_calls = <<>>
    /\ is_function_calling = FALSE
    /\ chunks_read = 0
    /\ delivered = <<>>

\* The registry on its own: an agent is configured and no query runs.
InitRegistry ==
    /\ sessions = <<>>
    /\ service_health = <<>>
    /\ tool_cache = <<>>
    /\ tool_to_session_map = <<>>
    /\ service_names = <<>>
    /\ clock = 0
    /\ call = NoCall
    /\ mode = "blocking"
    /\ llm_client = TRUE
    /\ llm_model = TRUE
    /\ max_iterations = MaxIterations
    /\ enable_trace = FALSE
    /\ react_enable_trace = FALSE
    /\ has_registry = TRUE
    /\ stream_is_async = FALSE
    /\ script = <<>>
    /\ mcp_servers = <<>>
    /\ OrchFresh
    /\ LookupFresh
    /\ TasksFresh
    /\ NetFresh
    /\ AgentFresh

NextRegistry ==
    \/ AddService /\ UNCHANGED <<orchVars, netVars, lookupVars, taskVars, agentVars>>
    \/ RemoveService /\ UNCHANGED <<orchVars, netVars, lookupVars, taskVars, agentVars>>
    \/ UpdateHealth /\ UNCHANGED <<orchVars, netVars, lookupVars, taskVars, agentVars>>

SpecRegistry == InitRegistry /\ [][NextRegistry]_vars

\* The registry given sessions of any kind.
NextAnySession ==
    \/ AddSession(AnySessions) /\ UNCHANGED <<orchVars, netVars, lookupVars, taskVars, agentVars>>
    \/ RemoveService /\ UNCHANGED <<orchVars, netVars, lookupVars, taskVars, agentVars>>
    \/ UpdateHealth /\ UNCHANGED <<orchVars, netVars, lookupVars, taskVars, agentVars>>

SpecAnySession == InitRegistry /\ [][NextAnySession]_vars

\* One query against a registry in which service "svc" at u1 offers "add".
LoadedRegistry ==
    add_service(EmptyRegistry, "u1", SessionObject(1),
                <<<<"add", ToolDefinition("add", "u1")>>>>, "svc", 0).reg

InitLoaded ==
    /\ sessions = LoadedRegistry.sessions
    /\ service_health = LoadedRegistry.service_health
    /\ tool_cache = LoadedRegistry.tool_cache
    /\ tool_to_session_map = LoadedRegistry.tool_to_session_map
    /\ service_names = LoadedRegistry.service_names
    /\ clock = 0
    /\ call = NoCall

\* Heartbeats: services come and go without tools of their own beside one
\* service that offers "add", and the clock advances between calls or not.
InitHealth ==
    /\ InitLoaded
    /\ mode = "blocking"
    /\ llm_client = TRUE
    /\ llm_model = TRUE
    /\ max_iterations = MaxIterations
    /\ enable_trace = FALSE
    /\ react_enable_trace = FALSE
    /\ has_registry = TRUE
    /\ stream_is_async = FALSE
    /\ script = <<>>
    /\ mcp_servers = <<>>
    /\ OrchFresh
    /\ LookupFresh
    /\ TasksFresh
    /\ NetFresh
    /\ AgentFresh

NextHealth ==
    \/ AddServiceNoTools /\ UNCHANGED <<orchVars, netVars, lookupVars, taskVars, agentVars>>
    \/ RemoveService /\ UNCHANGED <<orchVars, netVars, lookupVars, taskVars, agentVars>>
    \/ UpdateHealth /\ UNCHANGED <<orchVars, netVars, lookupVars, taskVars, agentVars>>
    \/ Tick /\ UNCHANGED <<orchVars, netVars, lookupVars, taskVars, agentVars>>

SpecHealth == InitHealth /\ [][NextHealth]_vars

InitAgent ==
    /\ InitLoaded
    /\ mode \in Modes
    /\ llm_client \in BOOLEAN
    /\ llm_model \in BOOLEAN
    /\ max_iterations \in 0..MaxIterations
    /\ enable_trace \in BOOLEAN
    /\ react_enable_trace = enable_trace
    /\ has_registry \in BOOLEAN
    /\ stream_is_async \in BOOLEAN
    /\ script = <<>>
    /\ mcp_servers = <<>>
    /\ OrchFresh
    /\ LookupFresh
    /\ TasksFresh
    /\ NetFresh
    /\ AgentFresh

NextAgent ==
    \/ ProcessQueryStart \/ ProcessQueryIteration \/ ProcessQueryLimit
    \/ StreamStart \/ StreamIteration \/ StreamLimit
    \/ TokenStart \/ TokenOpenStream \/ TokenChunk \/ TokenStreamExhausted
    \/ TokenStreamRaises \/ TokenFinish \/ TokenLimit

SpecAgent == InitAgent /\ [][NextAgent]_vars

\* The model answers "<think>abc</think>def", cut into token fragments.
ThinkText ==
    ThinkOpen \o <<"a", "b", "c">> \o ThinkClose \o <<"d", "e", "f">>

\* The ways of cutting s into n non-empty consecutive fragments.
RECURSIVE Cuts(_, _)
Cuts(s, n) ==
    IF n = 1 THEN IF s = <<>> THEN {} ELSE {<<s>>}
    ELSE UNION {{<<SubSeq(s, 1, k)>> \o rest : rest \in Cuts(SubSeq(s, k + 1, Len(s)), n - 1)}
                : k \in 1..(Len(s) - 1)}

Fragmentations(s) == UNION {Cuts(s, n) : n \in 1..MaxFragments}

ScriptOf(fragments) ==
    [i \in DOMAIN fragments |-> ContentChunk(fragments[i])] \o <<FinishChunk>>

InitThink ==
    /\ InitLoaded
    /\ mode = "token"
    /\ llm_client = TRUE
    /\ llm_model = TRUE
    /\ max_iterations = MaxIterations
    /\ enable_trace = FALSE
    /\ react_enable_trace = FALSE
    /\ has_registry = TRUE
    /\ stream_is_async \in BOOLEAN
    /\ script \in {ScriptOf(f) : f \in Fragmentations(ThinkText)}
    /\ mcp_servers = <<>>
    /\ OrchFresh
    /\ LookupFresh
    /\ TasksFresh
    /\ NetFresh
    /\ AgentFresh

NextThink == TokenStart \/ TokenOpenStream \/ TokenScriptedChunk \/ TokenFinish

SpecThink == InitThink /\ [][NextThink]_vars

\* The orchestrator with its registry and mcp.json, which holds no service or
\* one when the application starts.
InitOrch ==
    /\ sessions = <<>>
    /\ service_health = <<>>
    /\ tool_cache = <<>>
    /\ tool_to_session_map = <<>>
    /\ service_names = <<>>
    /\ clock = 0
    /\ call = NoCall
    /\ mcp_servers \in {<<>>, <<<<"a", "u1">>>>}
    /\ OrchFresh
    /\ LookupFresh
    /\ TasksFresh
    /\ NetFresh
    /\ mode = "blocking"
    /\ llm_client = TRUE
    /\ llm_model = TRUE
    /\ max_iterations = MaxIterations
    /\ enable_trace = FALSE
    /\ react_enable_trace = FALSE
    /\ has_registry = TRUE
    /\ stream_is_async = FALSE
    /\ script = <<>>
    /\ AgentFresh

NextOrch ==
    \/ LoadFromConfig /\ UNCHANGED <<clock, call, netVars, lookupVars, taskVars, agentVars>>
    \/ ConnectService /\ UNCHANGED <<clock, call, netVars, lookupVars, taskVars, agentVars>>
    \/ DisconnectService /\ UNCHANGED <<clock, call, netVars, lookupVars, taskVars, agentVars>>
    \/ StartMonitoring /\ UNCHANGED <<clock, call, netVars, lookupVars, taskVars, agentVars>>
    \/ HeartbeatStep /\ UNCHANGED <<clock, call, netVars, lookupVars, taskVars, agentVars>>
    \/ ReconnectionStep /\ UNCHANGED <<clock, call, netVars, lookupVars, taskVars, agentVars>>
    \/ CleanupStep /\ UNCHANGED <<clock, call, netVars, lookupVars, taskVars, agentVars>>
    \/ ProcessUnifiedQuery /\ UNCHANGED <<clock, call, netVars, lookupVars, taskVars, agentVars>>

SpecOrch == InitOrch /\ [][NextOrch]_vars

\* One transport, made with or without a session id to resume.
InitNet ==
    /\ sessions = <<>>
    /\ service_health = <<>>
    /\ tool_cache = <<>>
    /\ tool_to_session_map = <<>>
    /\ service_names = <<>>
    /\ clock = 0
    /\ call = NoCall
    /\ mcp_servers = <<>>
    /\ OrchFresh
    /\ LookupFresh
    /\ TasksFresh
    /\ session_id \in SessionIds \cup {""}
    /\ last_event_id = ""
    /\ received = ""
    /\ client_closed = FALSE
    /\ sent = RequestHeaders("none", "", "")
    /\ records = <<>>
    /\ SseFresh
    /\ mode = "blocking"
    /\ llm_client = TRUE
    /\ llm_model = TRUE
    /\ max_iterations = MaxIterations
    /\ enable_trace = FALSE
    /\ react_enable_trace = FALSE
    /\ has_registry = TRUE
    /\ stream_is_async = FALSE
    /\ script = <<>>
    /\ AgentFresh

NextNet ==
    \/ Initialize /\ UNCHANGED <<regVars, clock, call, orchVars, lookupVars, taskVars, agentVars>>
    \/ SendRequest /\ UNCHANGED <<regVars, clock, call, orchVars, lookupVars, taskVars, agentVars>>
    \/ SendNotification /\ UNCHANGED <<regVars, clock, call, orchVars, lookupVars, taskVars, agentVars>>
    \/ Close /\ UNCHANGED <<regVars, clock, call, orchVars, lookupVars, taskVars, agentVars>>

SpecNet == InitNet /\ [][NextNet]_vars

\* A transport reading one event stream, which arrives in chunks of any size.
InitSse ==
    /\ sessions = <<>>
    /\ service_health = <<>>
    /\ tool_cache = <<>>
    /\ tool_to_session_map = <<>>
    /\ service_names = <<>>
    /\ clock = 0
    /\ call = NoCall
    /\ mcp_servers = <<>>
    /\ OrchFresh
    /\ LookupFresh
    /\ TasksFresh
    /\ session_id = ""
    /\ last_event_id = ""
    /\ received = ""
    /\ client_closed = FALSE
    /\ sent = RequestHeaders("request", "", "")
    /\ records = <<>>
    /\ buffer = <<>>
    /\ yielded = <<>>
    /\ mode = "blocking"
    /\ llm_client = TRUE
    /\ llm_model = TRUE
    /\ max_iterations = MaxIterations
    /\ enable_trace = FALSE
    /\ react_enable_trace = FALSE
    /\ has_registry = TRUE
    /\ stream_is_async = FALSE
    /\ script = <<>>
    /\ AgentFresh
    /\ stream \in SeqsUpTo(SseRecords, MaxRecords) \ {<<>>}
    /\ eol \in LineEnds
    /\ unread = WriteRecords(stream, eol)

NextSse == ReadChunk /\ UNCHANGED <<regVars, clock, call, orchVars, lookupVars, taskVars, agentVars>>

SpecSse == InitSse /\ [][NextSse]_vars

\* Queries with a trace on one agent, whose configuration has tracing on or off.
InitTrace ==
    /\ sessions = <<>>
    /\ service_health = <<>>
    /\ tool_cache = <<>>
    /\ tool_to_session_map = <<>>
    /\ service_names = <<>>
    /\ clock = 0
    /\ call = NoCall
    /\ mcp_servers = <<>>
    /\ OrchFresh
    /\ LookupFresh
    /\ TasksFresh
    /\ NetFresh
    /\ mode = "blocking"
    /\ llm_client = TRUE
    /\ llm_model = TRUE
    /\ max_iterations = MaxIterations
    /\ enable_trace \in BOOLEAN
    /\ react_enable_trace = enable_trace
    /\ has_registry = TRUE
    /\ stream_is_async = FALSE
    /\ script = <<>>
    /\ AgentFresh

NextTrace ==
    \E q \in Tasks :
        \/ TraceCall(q) /\ UNCHANGED <<regVars, clock, call, orchVars, netVars, lookupVars>>
        \/ ModelRound(q) /\ UNCHANGED <<regVars, clock, call, orchVars, netVars, lookupVars>>
        \/ ToolReturns(q) /\ UNCHANGED <<regVars, clock, call, orchVars, netVars, lookupVars>>

SpecTrace == InitTrace /\ [][NextTrace]_vars

\* Agent loops looking tools up while one task mutates the registry.
NextLookup ==
    \/ MutatorStep /\ UNCHANGED <<orchVars, netVars, agentVars>>
    \/ Lookup /\ UNCHANGED <<orchVars, netVars, agentVars>>

SpecLookup == InitRegistry /\ [][NextLookup]_vars

\* ========================================================================
\* Registry claims
\* ========================================================================
Range(seq) == {seq[i] : i \in DOMAIN seq}

RequestedNames(tools) == {tools[i][1] : i \in DOMAIN tools}

UrlsOf(R, session) ==
    {R.sessions[i][1] : i \in {j \in DOMAIN R.sessions : SessionIs(R.sessions[j][2], session)}}

ToolNamesOf(tools) == {tools[i].name : i \in DOMAIN tools}

\* The step is an add_service call naming tool t, which is already present,
\* owned by another session than the one being added, registered under
\* another URL than the one being added.
SecondServiceAdds(t) ==
    /\ call'.op = "add_service"
    /\ t \in RequestedNames(call'.tools)
    /\ DictHas(tool_cache, t)
    /\ ~SessionIs(get_session_for_tool(Registry, t), call'.session)
    /\ UrlsOf(Registry, get_session_for_tool(Registry, t)) \ {call'.url} # {}

FirstOwnerKept(t) ==
    /\ SessionIs(get_session_for_tool(Registry, t)', get_session_for_tool(Registry, t))
    /\ t \notin Range(call'.ret)

C2_RemovalAtomicity ==
    call.op = "remove_service" =>
        \A t \in call.owned :
            /\ t \notin ToolNamesOf(get_all_tools(Registry))
            /\ get_session_for_tool(Registry, t) = None

\* A registered URL owning two tools has just been removed while another
\* service stays registered.
C2_Witness ==
    /\ call.op = "remove_service"
    /\ call.ret # None
    /\ Cardinality(call.owned) = 2
    /\ sessions # <<>>

\* C3: every entry of the tool-name map points to a session that is a value
\* of the URL map.
C3_IndexInvariant ==
    \A i \in DOMAIN tool_to_session_map :
        \E j \in DOMAIN sessions : SessionIs(sessions[j][2], tool_to_session_map[i][2])

\* Two services with their own tools are registered, one of them re-added
\* under a new session.
C3_Witness ==
    /\ call.op = "add_service"
    /\ call.owned # {}
    /\ Len(sessions) = 2
    /\ Len(tool_to_session_map) = 2
    /\ ~SessionIs(tool_to_session_map[1][2], tool_to_session_map[2][2])

\* ========================================================================
\* Agent loop claims
\* ========================================================================
\* Every model call made so far was answered, and answered by a tool request.
OnlyToolRequests ==
    /\ \A i \in DOMAIN trail : trail[i].kind = "response" => trail[i].what = "tool"
    /\ pc = "done" => CountOf("response") = model_calls

\* C4: with the model configured and a model that requests a tool call on
\* every call, the loop never makes more than max_iterations model calls, and
\* when it ends it has made exactly max_iterations model calls and ends at
\* the iteration limit (not completed, not failed), whatever the tools did.
C4_Termination ==
    (llm_client /\ llm_model /\ OnlyToolRequests) =>
        /\ model_calls <= max_iterations
        /\ iterations <= max_iterations
        /\ pc = "done" => (outcome = "limit" /\ model_calls = max_iterations)

\* Two rounds, one of which ended without invoking any tool, then the limit.
C4_Witness ==
    /\ llm_client /\ llm_model /\ OnlyToolRequests
    /\ pc = "done" /\ outcome = "limit"
    /\ max_iterations = MaxIterations
    /\ model_calls = MaxIterations
    /\ tool_invocations = 1

\* C5: in step streaming and in token streaming, a run that has ended, or that
\* will never yield again, has emitted exactly one event with is_final = true,
\* and that event is the last one.
C5_ExactlyOneFinal ==
    (mode \in {"step", "token"} /\ pc \in {"done", "hung"}) =>
        (FinalCount = 1 /\ IsFinalYield(trail[Len(trail)]))

\* Token streaming over a sync model stream that ends before any chunk
\* carried a finish_reason: the generator never yields again and has emitted
\* no Final event.
C5_HungWithoutFinal ==
    /\ mode = "token" /\ ~stream_is_async
    /\ pc = "hung"
    /\ model_calls = 1
    /\ FinalCount = 0

IsTokenChunk(e, type) ==
    /\ e.kind = "yield"
    /\ "token_chunk" \in DOMAIN e.event
    /\ e.event.token_chunk.type = type

RECURSIVE ChunkContents(_, _)
ChunkContents(events, type) ==
    IF events = <<>> THEN <<>>
    ELSE (IF IsTokenChunk(Head(events), type)
          THEN Head(events).event.token_chunk.content ELSE <<>>)
         \o ChunkContents(Tail(events), type)

\* C6: however "<think>abc</think>def" is cut into token fragments, the
\* thinking token chunks emitted spell "abc" and the content token chunks
\* spell "def".
C6_ThinkTagSplitting ==
    (pc = "done" /\ outcome = "completed") =>
        /\ ChunkContents(trail, "thinking") = <<"a", "b", "c">>
        /\ ChunkContents(trail, "content") = <<"d", "e", "f">>

\* A cut through both tags ("<th", "ink>abc</thi", "nk>def"): no fragment
\* holds a whole tag, nothing is routed to thinking, and the content chunks
\* spell the whole text, tags included.
C6_TagsCutThrough ==
    /\ pc = "done" /\ outcome = "completed"
    /\ ChunkContents(trail, "thinking") = <<>>
    /\ ChunkContents(trail, "content") = ThinkText

\* The requested tool has no owning session, or its call raises.
ToolFails(response, how) ==
    /\ IsToolRequest(response)
    /\ ~JsonLoadsFails(response.tool_calls[1].arguments)
    /\ _call_tool_with_registry(Registry, response.tool_calls[1].name, how).raised

\* C7: in the blocking loop, a pass in which the requested tool is not found
\* or raises leaves the loop running: it appends the assistant request and a
\* tool message carrying the error text under the request's tool_call_id,
\* returns nothing, and every pass of the loop within the limit starts with a
\* model call.
C7_RecoverableToolErrors ==
    [][ /\ \A response \in ModelResponses, how \in ToolOutcomes :
             ( /\ mode = "blocking" /\ pc = "loop" /\ WithinLimit /\ llm_model
               /\ ToolFails(response, how)
               /\ ProcessQueryRound(response, how) )
             => /\ pc' = "loop"
                /\ outcome' = "none"
                /\ result' = NoResult
                /\ Len(messages') = Len(messages) + 2
                /\ messages'[Len(messages')] =
                      ToolMessage(iterations + 1,
                          ToolErrorText(response.tool_calls[1].name,
                              _call_tool_with_registry(Registry, response.tool_calls[1].name,
                                                       how).text))
        /\ (mode = "blocking" /\ pc = "loop" /\ WithinLimit /\ llm_model)
             => /\ Len(trail') > Len(trail)
                /\ trail'[Len(trail) + 1] = ModelCall ]_vars

\* A tool that was not found, then a tool that raised, and the loop still runs.
C7_Witness ==
    /\ mode = "blocking" /\ has_registry /\ pc = "loop"
    /\ model_calls = 2
    /\ Len(messages) = 6
    /\ messages[4] = ToolMessage(1, ToolErrorText("nope", <<"Tool not found: ", "nope">>))
    /\ messages[6] = ToolMessage(2, ToolErrorText("add", ToolFailure))

\* What the caller gets: the returned text, or the result of the last event.
FinalResult ==
    IF mode = "blocking" THEN result.text ELSE trail[Len(trail)].event.result

\* C8: in every mode, a query without a model client or without a model name
\* ends as a failure with the configuration error text, after no model call
\* and no tool invocation; in the streaming modes that error is the only event.
C8_ConfigErrorAborts ==
    ((~llm_client \/ ~llm_model) /\ pc = "done") =>
        /\ model_calls = 0
        /\ tool_invocations = 0
        /\ outcome = "failed"
        /\ FinalResult = (IF ~llm_client THEN NoClientText ELSE NoModelText)
        /\ mode # "blocking" => Len(trail) = 1

\* No model name and max_iterations = 0: the loop body, which holds the check
\* of the model name, never runs, and the query ends at the iteration limit.
C8_LimitInsteadOfError ==
    /\ llm_client /\ ~llm_model
    /\ max_iterations = 0
    /\ pc = "done" /\ outcome = "limit"
    /\ FinalResult # NoModelText

\* C9: in each of the three modes, a run that ends at the iteration limit
\* returns the content of the last message of the history prefixed with the
\* notice that the limit was exceeded.
C9_IterationLimitResult ==
    (pc = "done" /\ outcome = "limit") =>
        FinalResult = LimitText(max_iterations, LastContent)

\* Token streaming at the limit after one tool round: the Final result is the
\* bare notice, without the content of the last message (the tool's output).
C9_TokenLimitNotice ==
    /\ mode = "token" /\ pc = "done" /\ outcome = "limit"
    /\ max_iterations = 1
    /\ LastContent = ToolOutput
    /\ FinalResult = TokenLimitText(max_iterations)

\* C10: in blocking mode with tracing, one round calling the registered tool
\* "add" with parsable arguments followed by a final answer makes 2 model
\* calls and 1 tool invocation, and returns a trace of exactly 2 entries.
C10_OneToolCallScenario ==
    ( /\ mode = "blocking" /\ enable_trace
      /\ pc = "done" /\ outcome = "completed"
      /\ iterations = 2
      /\ messages[3].tool_calls[1].name = "add"
      /\ ~JsonLoadsFails(messages[3].tool_calls[1].arguments) )
    => /\ model_calls = 2
       /\ tool_invocations = 1
       /\ Len(result.trace) = 2

\* The scenario of C10 as the code runs it: the final answer is recorded as a
\* third trace entry.
C10_ThreeEntries ==
    /\ mode = "blocking" /\ enable_trace
    /\ pc = "done" /\ outcome = "completed"
    /\ iterations = 2
    /\ messages[3].tool_calls[1].name = "add"
    /\ ~JsonLoadsFails(messages[3].tool_calls[1].arguments)
    /\ model_calls = 2
    /\ tool_invocations = 1
    /\ Len(result.trace) = 3
    /\ result.trace[3].role = "assistant"

\* ========================================================================
\* Registry claims, continued
\* ========================================================================
\* C11: remove_service of a URL that is not registered returns None and
\* leaves the five registry maps as they were.
C11_IdempotentRemoval ==
    [][(call'.op = "remove_service" /\ ~DictHas(sessions, call'.url))
          => (call'.ret = None /\ Registry' = Registry)]_vars

\* A URL that is not registered has just been removed while another service
\* and its tool are registered.
C11_Witness ==
    /\ call.op = "remove_service"
    /\ call.ret = None
    /\ ~DictHas(sessions, call.url)
    /\ sessions # <<>>
    /\ tool_cache # <<>>

\* The heartbeat stored for a URL (-1 when there is none).
HeartbeatOf(health, url) == DictGet(health, url, -1)

OtherHeartbeatsKept(url) ==
    \A u \in Urls \ {url} : HeartbeatOf(service_health', u) = HeartbeatOf(service_health, u)

HealthUpdateStep == call'.op = "update_service_health" /\ clock' = clock

\* C12 as stated: update_service_health of a registered URL stores a heartbeat
\* strictly greater than the one stored before; for a URL that is not
\* registered nothing changes.
C12_StrictlyGreater ==
    [][HealthUpdateStep =>
         IF DictHas(sessions, call'.url)
         THEN HeartbeatOf(service_health', call'.url) > HeartbeatOf(service_health, call'.url)
         ELSE Registry' = Registry]_vars

\* C12, amended: update_service_health of a registered URL stores the clock
\* reading of the call, which is never less than the heartbeat stored before
\* and is greater exactly when the clock has advanced since; no other
\* heartbeat and no other map changes; for a URL that is not registered
\* nothing changes.
C12_HealthUpdate ==
    [][HealthUpdateStep =>
         IF DictHas(sessions, call'.url)
         THEN /\ HeartbeatOf(service_health', call'.url) = clock
              /\ HeartbeatOf(service_health', call'.url) >= HeartbeatOf(service_health, call'.url)
              /\ (HeartbeatOf(service_health', call'.url) > HeartbeatOf(service_health, call'.url))
                   <=> (HeartbeatOf(service_health, call'.url) < clock)
              /\ OtherHeartbeatsKept(call'.url)
              /\ <<sessions, tool_cache, tool_to_session_map, service_names>>'
                   = <<sessions, tool_cache, tool_to_session_map, service_names>>
         ELSE Registry' = Registry]_vars

\* A registered URL has had its heartbeat refreshed at the latest clock
\* reading while another registered URL keeps an older heartbeat.
C12_Witness ==
    /\ call.op = "update_service_health"
    /\ DictHas(sessions, call.url)
    /\ HeartbeatOf(service_health, call.url) = clock
    /\ clock > 0
    /\ \E u \in Urls \ {call.url} :
          DictHas(sessions, u) /\ HeartbeatOf(service_health, u) < clock

\* ========================================================================
\* Orchestrator claims
\* ========================================================================
EntriesWithUrl(servers, url) == {i \in DOMAIN servers : servers[i][2] = url}

\* A step of the named public call (the background tasks and cleanup leave
\* the record of the last call alone only when they change a task).
CallStep(op) ==
    /\ orch_call'.op = op
    /\ UNCHANGED <<heartbeat_task, reconnection_task, cleanup_pc>>

\* C13: when connect_service is called with a URL that mcp.json already holds
\* under any name, and the file is written, the file afterwards holds exactly
\* one entry with that URL.
C13_NoDuplicateUrl ==
    [][(CallStep("connect_service") /\ orch_call'.ok
          /\ EntriesWithUrl(mcp_servers, orch_call'.url) # {})
         => Cardinality(EntriesWithUrl(mcp_servers', orch_call'.url)) = 1]_vars

\* connect_service has written a second entry for a URL.
C13_TwoEntriesForUrl ==
    /\ orch_call.op = "connect_service"
    /\ orch_call.ok
    /\ Cardinality(EntriesWithUrl(mcp_servers, orch_call.url)) = 2

Keys(d) == {d[i][1] : i \in DOMAIN d}

LoadingCalls == {"load_from_config", "connect_service", "disconnect_service"}

\* C14: after every setup, load_from_config, connect_service or
\* disconnect_service that has returned, the endpoint table, the registry's
\* session map and mcp.json have the same keys, and the table and the session
\* map hold one and the same client under all of them.
C14_TableMirrorsRegistry ==
    (orch_call.op \in LoadingCalls /\ ~orch_call.raised)
      => /\ Keys(clients) = Keys(sessions)
         /\ Keys(clients) = Keys(mcp_servers)
         /\ \A i, j \in DOMAIN clients : SessionIs(clients[i][2], clients[j][2])
         /\ \A i \in DOMAIN sessions : \A j \in DOMAIN clients :
               SessionIs(sessions[i][2], clients[j][2])

\* A load over a configuration with a service has ended in the exception, with
\* nothing in the endpoint table and nothing in the registry.
C14_LoadRaisedTableEmpty ==
    /\ orch_call.op \in LoadingCalls
    /\ orch_call.raised
    /\ mcp_servers # <<>>
    /\ clients = <<>>
    /\ sessions = <<>>

C17_ConnectOutcome ==
    [][CallStep("connect_service") =>
         IF orch_call'.ok
         THEN ~orch_call'.raised /\ orch_call'.ret
         ELSE /\ ~orch_call'.raised
              /\ ~orch_call'.ret
              /\ clients' = clients
              /\ Registry' = Registry]_vars

\* connect_service has written mcp.json and ended in the exception of the
\* reload instead of returning.
C17_PersistedButRaised ==
    /\ orch_call.op = "connect_service"
    /\ orch_call.ok
    /\ orch_call.raised
    /\ DictHas(mcp_servers, IF orch_call.name = "" THEN orch_call.url ELSE orch_call.name)

CleanupDisconnecting == cleanup_pc \in {"done", "raised"}

TaskOver(task) == task \in {"none", "cancelled", "failed"}

C20_SessionIdEcho ==
    /\ [](received # "" => session_id = received)
    /\ [](received # "" /\ sent.kind \in {"request", "listen", "notification", "delete"}
            => sent.session = received)
    /\ [][sent'.kind \in {"request", "listen", "notification", "delete"}
            => session_id' = session_id]_vars

\* The transport was closed with a DELETE carrying the id that an initialize
\* received, after a request or a listen that saw an event id.
C20_Witness ==
    /\ received = "s2"
    /\ client_closed
    /\ sent.kind = "delete"
    /\ sent.session = "s2"
    /\ last_event_id # ""

\* ========================================================================
\* Agent loop claims, continued
\* ========================================================================
IsStep(e, type, status) ==
    /\ e.kind = "yield"
    /\ ~e.event.is_final
    /\ "thinking_step" \in DOMAIN e.event
    /\ e.event.thinking_step.type = type
    /\ e.event.thinking_step.status = status

\* The model calls made up to position i of the trail.
RoundOf(i) == Len(SelectSeq(SubSeq(trail, 1, i), LAMBDA e : e.kind = "model_call"))

\* C21: in step streaming, each model response is followed by
\* ThinkingStep{start} and then ThinkingStep{complete} with the same id; each
\* tool invocation comes right after a ToolCallStep{start} naming the tool and
\* carrying the arguments it is invoked with, and right before a
\* ToolCallStep{complete} with the same id and the result that goes into the
\* history, so before the next model call; a Final event is the last event
\* and the last ThinkingStep before it has status complete.
C21_StepEventOrder ==
    mode = "step" =>
        /\ \A i \in DOMAIN trail :
             (trail[i].kind = "response" /\ trail[i].what # "raise") =>
                 /\ i + 2 <= Len(trail)
                 /\ IsStep(trail[i + 1], "thinking", "start")
                 /\ IsStep(trail[i + 2], "thinking", "complete")
                 /\ trail[i + 2].event.thinking_step.id = trail[i + 1].event.thinking_step.id
        /\ \A i \in DOMAIN trail :
             trail[i].kind = "invoke" =>
                 /\ i > 1 /\ i < Len(trail)
                 /\ IsStep(trail[i - 1], "tool_call", "start")
                 /\ trail[i - 1].event.thinking_step.tool = trail[i].tool
                 /\ trail[i - 1].event.thinking_step.params = trail[i].args
                 /\ IsStep(trail[i + 1], "tool_call", "complete")
                 /\ trail[i + 1].event.thinking_step.id = trail[i - 1].event.thinking_step.id
                 /\ trail[i + 1].event.thinking_step.result = messages[2 + 2 * RoundOf(i)].content
        /\ \A i \in DOMAIN trail :
             IsFinalYield(trail[i]) =>
                 /\ i = Len(trail)
                 /\ \A j \in 1..(i - 1) :
                      IsStep(trail[j], "thinking", "start") =>
                          \E k \in (j + 1)..(i - 1) : IsStep(trail[k], "thinking", "complete")
                 /\ outcome = "completed" => IsStep(trail[i - 1], "thinking", "complete")

\* A step-streaming run in which a tool was invoked with parsed arguments and
\* the next model response was the final answer.
C21_Witness ==
    /\ mode = "step"
    /\ pc = "done" /\ outcome = "completed"
    /\ model_calls = 2
    /\ \E i \in DOMAIN trail : trail[i].kind = "invoke" /\ trail[i].args = JsonObject
    /\ IsFinalYield(trail[Len(trail)])

\* The events of the trail between the r-th model call and the next one.
RECURSIVE RoundEvents(_, _)
RoundEvents(events, r) ==
    IF events = <<>> THEN <<>>
    ELSE IF Head(events).kind = "model_call"
         THEN IF r = 0 THEN <<>> ELSE RoundEvents(Tail(events), r - 1)
         ELSE (IF r = 0 THEN <<Head(events)>> ELSE <<>>) \o RoundEvents(Tail(events), r)

InvocationsIn(r) ==
    Len(SelectSeq(RoundEvents(trail, r), LAMBDA e : e.kind = "invoke"))

IsToolCallsMessage(m) == m.role = "assistant" /\ "tool_calls" \in DOMAIN m

\* The number of assistant messages carrying tool calls among messages[1..i].
RequestsUpTo(i) == Len(SelectSeq(SubSeq(messages, 1, i), IsToolCallsMessage))

\* C22: in every output mode, a requested tool call whose JSON arguments do
\* not parse is answered in the history by a tool message carrying the
\* parse-error text, and the tool is not invoked: a round invokes at most as
\* many tools as it has calls whose arguments parse.
C22_UnparsableNotInvoked ==
    \A i \in DOMAIN messages :
        IsToolCallsMessage(messages[i]) =>
            LET calls == messages[i].tool_calls
                parsed == SelectSeq(calls, LAMBDA tc : ~JsonLoadsFails(tc.arguments))
            IN  /\ InvocationsIn(RequestsUpTo(i)) <= Len(parsed)
                /\ \A k \in DOMAIN calls :
                     JsonLoadsFails(calls[k].arguments) =>
                         /\ i + k <= Len(messages)
                         /\ messages[i + k] =
                               ToolMessage(calls[k].id, ParseErrorText(calls[k].name))

\* Step streaming: the model asked for "add" with arguments "{", the tool was
\* invoked with the substitute error dict, and its output went into the
\* history as the result.
C22_InvokedWithErrorArgs ==
    /\ mode = "step"
    /\ \E i \in DOMAIN trail : trail[i] = Invoked("add", ErrorArgs)
    /\ Len(messages) = 4
    /\ JsonLoadsFails(messages[3].tool_calls[1].arguments)
    /\ messages[4] = ToolMessage(1, ToolOutput)

\* C23: in token streaming, an assembled tool call whose name no fragment
\* supplied is discarded: no tool is invoked under an empty name and no call
\* with an empty name is part of an assistant message of the history.
C23_NoUnresolvedCall ==
    mode = "token" =>
        /\ \A i \in DOMAIN trail : trail[i].kind = "invoke" => trail[i].tool # ""
        /\ \A i \in DOMAIN messages :
             IsToolCallsMessage(messages[i]) =>
                 \A k \in DOMAIN messages[i].tool_calls : messages[i].tool_calls[k].name # ""

\* Token streaming without a registry: the only fragment of the stream had
\* index 1 and no name; two calls with empty names were assembled, kept in
\* the assistant message and sent to the client's call_tool.
C23_UnnamedCallInvoked ==
    /\ mode = "token" /\ ~has_registry
    /\ pc = "loop"
    /\ Len(messages) = 5
    /\ Len(messages[3].tool_calls) = 2
    /\ \A k \in 1..2 : messages[3].tool_calls[k].name = ""
    /\ \E i \in DOMAIN trail : trail[i].kind = "invoke" /\ trail[i].tool = ""

\* The fragments delivered for position index i, in arrival order.
FragmentsOf(i) == SelectSeq(delivered, LAMBDA d : d.index = i)

RECURSIVE ArgumentsOf(_)
ArgumentsOf(ds) ==
    IF ds = <<>> THEN <<>> ELSE OrEmpty(Head(ds).arguments) \o ArgumentsOf(Tail(ds))

\* The name the fragments give: the last one that is not None, else none.
RECURSIVE NameOf(_)
NameOf(ds) ==
    IF ds = <<>> THEN ""
    ELSE IF ds[Len(ds)].name # NoneName THEN ds[Len(ds)].name
    ELSE NameOf(SubSeq(ds, 1, Len(ds) - 1))

\* C24: while and after a model stream is read in token streaming, the call
\* assembled for position index i has the name its fragments gave and, as
\* argument text, the concatenation in arrival order of exactly the argument
\* fragments that carried index i; the list is as long as the highest index
\* delivered requires.
C24_FragmentAssembly ==
    (mode = "token" /\ pc \in {"stream", "finish"}) =>
        /\ \A d \in Range(delivered) : d.index + 1 <= Len(tool_calls)
        /\ \A at \in DOMAIN tool_calls :
             /\ tool_calls[at].arguments = ArgumentsOf(FragmentsOf(at - 1))
             /\ tool_calls[at].name = NameOf(FragmentsOf(at - 1))

\* A chunk whose content is "<think>" also carried the fragment "{}" of call
\* 0 named "add": the loop body ended at `continue`, and no call was assembled.
C24_FragmentDropped ==
    /\ mode = "token" /\ pc = "stream"
    /\ in_thinking_mode
    /\ Len(delivered) = 1
    /\ delivered[1].name = "add"
    /\ tool_calls = <<>>
    /\ ~is_function_calling

IsToolStep(e) == IsStep(e, "tool_call", "start") \/ IsStep(e, "tool_call", "complete")

\* C25: in token streaming, a model stream is followed by tool execution only
\* when it assembled at least one call with a resolved name; then the calls
\* are executed in index order, each between its own ToolCallStep{start} and
\* ToolCallStep{complete}, with one tool message per call in the history
\* before the next model call.  A run that ends with the model's answer ends
\* with the assistant message appended, the Final event, and no invocation
\* after the last model call.
C25_TokenFinishStep ==
    mode = "token" =>
        /\ \A i \in DOMAIN messages :
             IsToolCallsMessage(messages[i]) =>
                 LET calls == messages[i].tool_calls
                     ev == RoundEvents(trail, RequestsUpTo(i))
                     steps == SelectSeq(ev, IsToolStep)
                 IN  /\ \E k \in DOMAIN calls : calls[k].name # ""
                     /\ Len(messages) >= i + Len(calls)
                     /\ Len(steps) = 2 * Len(calls)
                     /\ \A k \in DOMAIN calls :
                          /\ IsStep(steps[2 * k - 1], "tool_call", "start")
                          /\ steps[2 * k - 1].event.thinking_step.tool = calls[k].name
                          /\ IsStep(steps[2 * k], "tool_call", "complete")
                          /\ steps[2 * k].event.thinking_step.id
                                = steps[2 * k - 1].event.thinking_step.id
                          /\ messages[i + k] =
                                ToolMessage(calls[k].id, steps[2 * k].event.thinking_step.result)
                     /\ \A j \in DOMAIN ev :
                          ev[j].kind = "invoke" =>
                              /\ j > 1 /\ j < Len(ev)
                              /\ IsStep(ev[j - 1], "tool_call", "start")
                              /\ IsStep(ev[j + 1], "tool_call", "complete")
        /\ outcome = "completed" =>
              /\ messages[Len(messages)] = current_message
              /\ IsFinalYield(trail[Len(trail)])
              /\ InvocationsIn(model_calls) = 0

\* With a registry: the stream delivered one fragment, for index 1 and without
\* a name.  No call has a resolved name, yet the loop did not end with the
\* Final event: both slots were wrapped in tool-call events, answered by
\* "Tool not found" messages, and the loop goes on to the next model call.
C25_ExecutedWithoutValidCall ==
    /\ mode = "token" /\ has_registry
    /\ pc = "loop"
    /\ FinalCount = 0
    /\ tool_invocations = 0
    /\ Len(delivered) = 1
    /\ Len(messages) = 5
    /\ \A k \in 1..2 : messages[3].tool_calls[k].name = ""
    /\ messages[5].content = ToolErrorText("", <<"Tool not found: ", "">>)

\* ========================================================================
\* Registry claims, sessions of any kind
\* ========================================================================
ToolKeys(R) == {R.tool_to_session_map[i][1] : i \in DOMAIN R.tool_to_session_map}

\* C26: remove_service(u) of a registered URL removes exactly the tools whose
\* owner is the very session object registered under u; a tool owned by
\* another object, even one that compares equal to it, is kept.
C26_RemovalByIdentity ==
    [][(call'.op = "remove_service" /\ call'.ret # None)
          => ToolKeys(Registry') = ToolKeys(Registry) \ get_tools_for_service(Registry, call'.url)]_vars

\* u1 has just been removed; through u1 only "add" was owned.  u2 is still
\* registered with a distinct object that compares equal to the removed one,
\* and no tool is left in the registry.
C26_EqualSessionLostTools ==
    /\ call.op = "remove_service" /\ call.url = "u1"
    /\ call.ret = SessionObject(1)
    /\ call.owned = {"add"}
    /\ Len(sessions) = 1
    /\ sessions[1][1] = "u2"
    /\ SessionEq(sessions[1][2], call.ret) /\ ~SessionIs(sessions[1][2], call.ret)
    /\ tool_cache = <<>>
    /\ tool_to_session_map = <<>>

\* The tools a session owns, whatever URL it is registered under.
ToolsOwnedBy(R, session) ==
    {R.tool_to_session_map[i][1] :
        i \in {j \in DOMAIN R.tool_to_session_map :
                  SessionIs(R.tool_to_session_map[j][2], session)}}

\* The step is an add_service call for a URL that is registered.
ReAdds == call'.op = "add_service" /\ DictHas(sessions, call'.url)

\* The URL maps to the new session, and every tool owned through the URL
\* before the call is gone unless the call installed it again.
OldRegistrationReplaced ==
    /\ SessionIs(DictGet(sessions', call'.url, None), call'.session)
    /\ \A t \in get_tools_for_service(Registry, call'.url) :
           t \in Range(call'.ret) \/ t \notin ToolKeys(Registry')

ProbeEnds ==
    /\ heartbeat_task = "probing"
    /\ health_iter' # health_iter
    /\ heartbeat_task' # "cancelled"

\* A step in which a health pass comes to its end.
PassEnds ==
    /\ heartbeat_task \in {"sleeping", "probing"}
    /\ orch_call'.op = "_check_services_health"
    /\ (orch_call' # orch_call \/ ProbeEnds)

QueryCall == orch_call'.op = "process_unified_query" /\ orch_call' # orch_call

ReadStep ==
    /\ sent'.kind \in {"request", "listen"}
    /\ <<sent, records, last_event_id>>' # <<sent, records, last_event_id>>

\* The id field of the last of the given records that has one.
LastIdField(read, before) ==
    LET carrying == {i \in DOMAIN read : read[i] # NoIdLine}
    IN  IF carrying = {} THEN before
        ELSE read[CHOOSE i \in carrying : \A j \in carrying : j <= i]

\* The last-seen event id follows the id fields read, and each request or
\* server-listen call sends the value stored when it is made ("" is an
\* absent header).
TracksIdFields ==
    /\ ReadStep => /\ last_event_id' = LastIdField(records', last_event_id)
                   /\ sent'.event = last_event_id
    /\ ~ReadStep => last_event_id' = last_event_id

\* C30 as stated: the last-seen event id of a transport is the id field of the
\* most recent record read that carried one, it is never reset to empty, and
\* every later request or server-listen call sends it in Last-Event-ID.
C30_EventIdNeverReset ==
    [][/\ TracksIdFields
       /\ last_event_id # "" => last_event_id' # ""
       /\ ReadStep /\ (\E i \in DOMAIN records : records[i] # NoIdLine) =>
             sent'.event # ""]_vars

\* C30, amended: the last-seen event id of a transport is the value of the id
\* field of the most recent record read that carried one, empty when that
\* value was empty; every later request or server-listen call sends it in
\* Last-Event-ID when it is not empty and sends no such header when it is.
C30_EventIdTracking == [][TracksIdFields]_vars

\* A request that carried Last-Event-ID has read a record with an event id and
\* then one whose id field is empty, which left the last-seen event id empty.
C30_Witness ==
    /\ sent.kind = "request"
    /\ sent.event = "e1"
    /\ records = <<"e2", "">>
    /\ last_event_id = ""

\* ========================================================================
\* Event stream claims
\* ========================================================================
\* The payload of a record: that of its data line, when it has one that is a
\* JSON document.
PayloadOf(record) ==
    LET docs == {i \in DOMAIN record :
                    /\ IsDataLine(record[i])
                    /\ record[i][Len(record[i])] \in {"j", "k", "0"}}
    IN  IF docs = {} THEN NoEventData ELSE record[CHOOSE i \in docs : TRUE][Len(record[CHOOSE i \in docs : TRUE])]

\* One event per record with a parsable non-empty payload, in order.
RECURSIVE EventsOf(_)
EventsOf(recs) ==
    IF recs = <<>> THEN <<>>
    ELSE (IF PayloadOf(Head(recs)) # NoEventData THEN <<PayloadOf(Head(recs))>> ELSE <<>>)
         \o EventsOf(Tail(recs))

\* C31: however an event stream of blank-line-terminated records is cut into
\* chunks, the transport has yielded, once the stream is read, one event per
\* record with a parsable non-empty data payload, in the order of the records,
\* and until then a prefix of these.
C31_ChunkingIndependent ==
    /\ \E n \in 0..Len(EventsOf(stream)) : yielded = SubSeq(EventsOf(stream), 1, n)
    /\ unread = <<>> => yielded = EventsOf(stream)

\* A stream whose lines end with CR LF has been read to its end and no event
\* was yielded for its two records with a payload: all of it is still in the
\* buffer.
C31_CrLfStreamYieldsNothing ==
    /\ eol = <<CR, LF>>
    /\ Len(EventsOf(stream)) = 2
    /\ unread = <<>>
    /\ buffer = WriteRecords(stream, eol)
    /\ yielded = <<>>

\* ========================================================================
\* Concurrent query claims
\* ========================================================================
NoneInFlight == \A q \in Tasks : tasks[q].pc \in {"new", "done"}

\* C32: every query with a trace that completes, whatever other such queries
\* run on the same agent meanwhile, returns a trace that is not None and
\* holds every step of its own run; and when no query is in flight the
\* agent's enable_trace flag is the configured one.
C32_TraceUnderConcurrency ==
    /\ \A q \in Tasks :
          tasks[q].pc = "done" =>
             /\ ~tasks[q].trace.none
             /\ tasks[q].trace.steps = tasks[q].steps
    /\ NoneInFlight => enable_trace = react_enable_trace

\* Two queries overlapped, no model call raised: the one that ended last got
\* no trace although its run had steps, and the flag is left on although the
\* configuration has it off.
C32_TraceLostAndFlagStuck ==
    /\ \A q \in Tasks : tasks[q].pc = "done" /\ tasks[q].steps # <<>>
    /\ \A q \in Tasks : tasks[q].steps[Len(tasks[q].steps)].role = "assistant"
    /\ ~tasks[1].trace.none
    /\ tasks[1].trace.steps = tasks[1].steps
    /\ tasks[2].trace.none
    /\ ~react_enable_trace
    /\ enable_trace

\* ========================================================================
\* Orchestrator claims: reconnection, disconnection and cleanup
\* ========================================================================
\* The names of the endpoint table and the URLs of the registry.
KeysOf(dict) == {dict[i][1] : i \in DOMAIN dict}

\* C33: an endpoint that disconnect_service has taken out of mcp.json is not
\* in mcp.json, in the endpoint table or in the registry afterwards, whatever
\* reconnection passes run, until a caller connects it again.
C33_NoResurrection ==
    \A url \in disconnected :
        /\ url \notin ConfiguredUrls(mcp_servers)
        /\ url \notin KeysOf(clients)
        /\ url \notin KeysOf(sessions)

\* A reconnection pass has written a disconnected endpoint back to mcp.json,
\* under its URL as name.
C33_Resurrected ==
    /\ orch_call.op = "_attempt_reconnections"
    /\ \E url \in disconnected :
          /\ url \in pending_reconnection
          /\ \E i \in DOMAIN mcp_servers : mcp_servers[i] = <<url, url>>
          /\ \E i \in DOMAIN orch_call.attempts : orch_call.attempts[i][1] = url

\* A step that is one reconnection pass.
ReconnectionPass == orch_call'.op = "_attempt_reconnections"

\* C34: a reconnection attempt for a pending endpoint that names a service of
\* mcp.json leaves the URL stored for that service as it was.
C34_ReconnectionKeepsUrl ==
    [][ReconnectionPass =>
          \A i \in DOMAIN orch_call'.attempts :
              LET name == orch_call'.attempts[i][1]
              IN  DictHas(mcp_servers, name) =>
                     DictGet(mcp_servers', name, "") = DictGet(mcp_servers, name, "")]_vars

\* A pass has attempted the pending endpoint u2 with connect_service("u2", "u2")
\* while mcp.json held a service named u2 whose URL was u1; the service now has
\* the URL u2.
C34_UrlOverwritten ==
    /\ orch_call.op = "_attempt_reconnections"
    /\ \E i \in DOMAIN orch_call.attempts : orch_call.attempts[i][1] = "u2"
    /\ DictGet(orch_call.before, "u2", "") = "u1"
    /\ DictGet(mcp_servers, "u2", "") = "u2"

\* cleanup() has returned or raised.
CleanupOver == cleanup_pc \in {"done", "raised"}

\* C35: when cleanup() is over, mcp.json holds the services it held when
\* cleanup() was entered.
C35_CleanupKeepsConfig == CleanupOver => mcp_servers = cleanup_from

\* cleanup() has returned and mcp.json holds a service it did not hold when
\* cleanup() was entered.
C35_ConfigChangedDuringCleanup ==
    /\ cleanup_pc = "done"
    /\ cleanup_from # <<>>
    /\ \E i \in DOMAIN mcp_servers : ~DictHas(cleanup_from, mcp_servers[i][1])

\* ------------------------------------------------------------------------
\* Registry claims: removal and key sets
\* ------------------------------------------------------------------------
\* The tools of a URL and the session each of them resolves to, in R.
ToolsAndOwners(R, url) ==
    {<<tool_name, get_session_for_tool(R, tool_name)>> :
        tool_name \in get_tools_for_service(R, url)}

\* C36: remove_service(u) leaves, for every other URL that is still registered,
\* its list of tools and the session each of them resolves to as they were,
\* also when the two URLs were registered with one session object.
C36_RemovalLeavesOthers ==
    [][call'.op = "remove_service" =>
          \A other \in Urls \ {call'.url} :
              DictHas(sessions', other) =>
                 ToolsAndOwners(Registry', other) = ToolsAndOwners(Registry, other)]_vars

\* remove_service(u) has returned the session of u, which owned tools; another
\* URL is still registered with that very object and has no tool left.
C36_SharedSessionLosesTools ==
    /\ call.op = "remove_service"
    /\ call.ret # None
    /\ call.owned # {}
    /\ \E other \in Urls \ {call.url} :
          /\ DictHas(sessions, other)
          /\ SessionIs(DictGet(sessions, other, None), call.ret)
          /\ get_tools_for_service(Registry, other) = {}

\* C37: after any sequence of add_service, remove_service and
\* update_service_health calls, with sessions of any kind, sessions,
\* service_health and service_names have the same keys, and tool_cache and
\* tool_to_session_map have the same keys.
C37_KeySetsAgree ==
    /\ KeysOf(sessions) = KeysOf(service_health)
    /\ KeysOf(sessions) = KeysOf(service_names)
    /\ KeysOf(tool_cache) = KeysOf(tool_to_session_map)

\* remove_service(u) has returned None for a URL that was registered with a
\* falsy session: u is no key of sessions and still a key of service_health
\* and of service_names.
C37_StaleHealthAndName ==
    /\ call.op = "remove_service"
    /\ call.ret = None
    /\ ~DictHas(sessions, call.url)
    /\ DictHas(service_health, call.url)
    /\ DictHas(service_names, call.url)

\* ------------------------------------------------------------------------
\* Agent claims: the history, thinking steps and the streamed answer
\* ------------------------------------------------------------------------
\* ms starts with ps.
StartsWith(ms, ps) == Len(ps) <= Len(ms) /\ SubSeq(ms, 1, Len(ps)) = ps

\* Every assistant message of ms that carries tool calls is followed at once
\* by one tool message per call, in the order of the calls and with the id of
\* the call, and ms has no other tool message.
ToolCallsAnswered(ms) ==
    /\ \A i \in DOMAIN ms :
         IsToolCallsMessage(ms[i]) =>
             \A k \in DOMAIN ms[i].tool_calls :
                 /\ i + k <= Len(ms)
                 /\ ms[i + k].role = "tool"
                 /\ ms[i + k].tool_call_id = ms[i].tool_calls[k].id
    /\ \A j \in DOMAIN ms :
         ms[j].role = "tool" =>
             \E i \in 1..(j - 1) :
                 /\ IsToolCallsMessage(ms[i])
                 /\ j - i <= Len(ms[i].tool_calls)

\* C38: the history of a run starts as [system, user(query)] and then only
\* grows at its end; the history handed to a model call after the first has,
\* after each assistant message carrying tool calls and before any later
\* assistant message, exactly one tool message per call, with the id of the
\* call.
C38_HistoryWellFormed ==
    [][/\ (messages = <<>> /\ messages' # <<>>) =>
              /\ Len(messages') = 2
              /\ messages'[1].role = "system"
              /\ messages'[2] = [role |-> "user", content |-> Query]
       /\ messages # <<>> => StartsWith(messages', messages)
       /\ model_calls' > model_calls => ToolCallsAnswered(messages)]_vars

\* The second model call of a run was made with a history of five messages:
\* the assistant message of the first round carried two calls and is followed
\* by their two tool messages.
C38_Witness ==
    /\ model_calls = 2
    /\ Len(messages) >= 5
    /\ IsToolCallsMessage(messages[3])
    /\ Len(messages[3].tool_calls) = 2
    /\ messages[4].role = "tool" /\ messages[5].role = "tool"
    /\ messages[4].tool_call_id # messages[5].tool_call_id

\* The thinking step started by trail[i] is completed, under the same id,
\* somewhere in trail[i+1 .. j-1].
CompletedBetween(i, j) ==
    \E k \in (i + 1)..(j - 1) :
        /\ IsStep(trail[k], "thinking", "complete")
        /\ trail[k].event.thinking_step.id = trail[i].event.thinking_step.id

\* Every thinking step that was started is completed before the next one
\* starts and before the Final event.
ThinkingBalanced ==
    \A i \in DOMAIN trail :
        IsStep(trail[i], "thinking", "start") =>
            \A j \in (i + 1)..Len(trail) :
                (IsStep(trail[j], "thinking", "start") \/ IsFinalYield(trail[j]))
                    => CompletedBetween(i, j)

\* C39: in token streaming, each ThinkingStep{start} is followed by a
\* ThinkingStep{complete} with the same id before the next ThinkingStep{start}
\* and before the Final event, and the engine is not in thinking mode when a
\* model call is made.
C39_ThinkingBalanced ==
    [][mode = "token" =>
          /\ ThinkingBalanced'
          /\ model_calls' > model_calls => ~in_thinking_mode]_vars

\* A token-streaming run ended with the Final event of an answer while the
\* thinking step it started was never completed.
C39_FinalInsideThinking ==
    /\ mode = "token"
    /\ outcome = "completed"
    /\ in_thinking_mode
    /\ IsFinalYield(trail[Len(trail)])
    /\ \E i \in DOMAIN trail : IsStep(trail[i], "thinking", "start")
    /\ \A i \in DOMAIN trail : ~IsStep(trail[i], "thinking", "complete")

IsContentToken(e) ==
    /\ e.kind = "yield"
    /\ ~e.event.is_final
    /\ "token_chunk" \in DOMAIN e.event
    /\ e.event.token_chunk.type = "content"

\* The contents of the content tokens among events, joined in order.
RECURSIVE StreamedContent(_)
StreamedContent(events) ==
    IF events = <<>> THEN <<>>
    ELSE (IF IsContentToken(Head(events)) THEN Head(events).event.token_chunk.content ELSE <<>>)
            \o StreamedContent(Tail(events))

\* C40: a token-streaming run that ends with the model's answer ends with a
\* Final event whose result is the contents of all content tokens of the run,
\* of every iteration, joined in the order they were emitted.
C40_FinalIsStreamedContent ==
    (mode = "token" /\ outcome = "completed") =>
        /\ IsFinalYield(trail[Len(trail)])
        /\ trail[Len(trail)].event.result = StreamedContent(trail)

\* A run of two iterations: a content token was emitted before the tools of
\* the first iteration ran and another one in the second, and the Final event
\* carries both.
C40_Witness ==
    /\ mode = "token" /\ outcome = "completed"
    /\ iterations = 2
    /\ tool_invocations >= 1
    /\ IsContentToken(trail[2])
    /\ Len(StreamedContent(trail)) = 2
    /\ trail[Len(trail)].event.result = <<"a", "a">>
====
